---- MODULE Spec2Model ----
(***************************************************************************)
(* Model of the Notion response-to-Markdown rendering engine               *)
(* (src/src/markdown/index.ts), of the string utilities it uses            *)
(* (src/src/utils/index.ts) and of the MCP server that calls the Notion    *)
(* API and formats its responses (src/src/server/index.ts).                *)
(*                                                                         *)
(* JavaScript strings are TLA+ strings; a character is a string of         *)
(* length 1, read with At(s, i).  JavaScript values are tagged records     *)
(* (field t is the typeof-like tag), objects keep their entries in         *)
(* Object.entries order.  A completion of a renderer is a record           *)
(* [exc, val]: exc says that a TypeError was thrown, val is the text       *)
(* returned (or, when exc, the text built before the throw).               *)
(***************************************************************************)
EXTENDS Integers, Sequences, FiniteSets, TLC

VARIABLES input, output, pc, op, config, calls, listed

vars == <<input, output, pc, op, config, calls, listed>>

(***************************************************************************)
(* JavaScript values                                                       *)
(***************************************************************************)
Undefined == [t |-> "undefined"]
Null == [t |-> "null"]
Str(s) == [t |-> "string", v |-> s]
Num(n) == [t |-> "number", v |-> n]
Bool(b) == [t |-> "boolean", v |-> b]
Arr(a) == [t |-> "array", v |-> a]
Obj(e) == [t |-> "object", v |-> e]

IsNullish(x) == x.t \in {"undefined", "null"}
IsString(x) == x.t = "string"
IsArray(x) == x.t = "array"

\* JavaScript truthiness (ToBoolean)
Truthy(x) ==
  CASE x.t \in {"undefined", "null"} -> FALSE
    [] x.t = "string" -> x.v # ""
    [] x.t = "number" -> x.v # 0
    [] x.t = "boolean" -> x.v
    [] OTHER -> TRUE

\* x.k for a non-nullish receiver x: an own entry of an object, else undefined
Get(x, k) ==
  IF x.t = "object"
  THEN LET idx == {i \in 1..Len(x.v) : x.v[i][1] = k}
       IN IF idx = {} THEN Undefined
          ELSE x.v[CHOOSE i \in idx : \A j \in idx : j <= i][2]
  ELSE Undefined

\* x?.k
OptGet(x, k) == IF IsNullish(x) THEN Undefined ELSE Get(x, k)

\* a || b
OrElse(a, b) == IF Truthy(a) THEN a ELSE b

(***************************************************************************)
(* Characters and character classes of the regular expressions             *)
(***************************************************************************)
At(s, i) == IF 1 <= i /\ i <= Len(s) THEN SubSeq(s, i, i) ELSE ""

LowerStr == "abcdefghijklmnopqrstuvwxyz"
UpperStr == "ABCDEFGHIJKLMNOPQRSTUVWXYZ"
DigitStr == "0123456789"

LowerSet == {SubSeq(LowerStr, i, i) : i \in 1..26}
UpperSet == {SubSeq(UpperStr, i, i) : i \in 1..26}
DigitSet == {SubSeq(DigitStr, i, i) : i \in 1..10}

\* the /i flag: compare characters after folding to lower case
Lower(c) ==
  IF c \in UpperSet
  THEN SubSeq(LowerStr, CHOOSE i \in 1..26 : SubSeq(UpperStr, i, i) = c,
                        CHOOSE i \in 1..26 : SubSeq(UpperStr, i, i) = c)
  ELSE c

\* \w
IsWord(c) == c \in LowerSet \cup UpperSet \cup DigitSet \cup {"_"}

\* [a-z0-9+/=] under /i
IsBase64(c) == c \in LowerSet \cup UpperSet \cup DigitSet \cup {"+", "/", "="}

\* the literal lit (lower case) occurs in s at position i, ignoring case
EqCI(s, i, lit) ==
  /\ i >= 1
  /\ i + Len(lit) - 1 <= Len(s)
  /\ \A j \in 1..Len(lit) : Lower(At(s, i + j - 1)) = At(lit, j)

\* least element of a non-empty set of positions
Least(S) == CHOOSE p \in S : \A q \in S : p <= q

\* least element of a set of positions, 0 when the set is empty
Least0(S) == IF S = {} THEN 0 ELSE Least(S)

\* position p moved d places on; 0 (no position) stays 0
Shift(p, d) == IF p = 0 THEN 0 ELSE p + d

\* least position >= i of s where the literal lit starts, 0 when none
FirstLit(s, i, lit) == Least0({j \in i..Len(s) : EqCI(s, j, lit)})

\* least position >= i of s holding the character c, 0 when there is none
FirstChar(s, i, c) == Least0({j \in i..Len(s) : At(s, j) = c})

\* length of the maximal run of \w characters of s starting at position i
WordRun(s, i) ==
  Least({j \in i..(Len(s) + 1) : ~IsWord(At(s, j))}) - i

(***************************************************************************)
(* sanitizeString: the four replace() passes                               *)
(***************************************************************************)
\* /<script\b[^<]*(?:(?!<\/script>)<[^<]*)*<\/script>/gi at position i:
\* the last position of the match, 0 when the pattern does not match at i.
\* The body cannot step over a "</script>", so the match ends at the first
\* closing tag after the opening "<script" + word boundary.
ScriptMatchEnd(s, i) ==
  IF /\ EqCI(s, i, "<script")
     /\ i + 7 <= Len(s)
     /\ ~IsWord(At(s, i + 7))
  THEN Shift(FirstLit(s, i + 7, "</script>"), 8)
  ELSE 0

\* the rest of /on\w+="[^"]*"/ once \w+ has taken its maximal run and
\* stopped in front of position k
HandlerValueEnd(s, k, q) ==
  IF At(s, k) = "=" /\ At(s, k + 1) = q
  THEN FirstChar(s, k + 2, q)
  ELSE 0

\* /on\w+="[^"]*"/gi (q is the quote character) at position i
HandlerMatchEnd(s, i, q) ==
  IF /\ Lower(At(s, i)) = "o"
     /\ Lower(At(s, i + 1)) = "n"
     /\ IsWord(At(s, i + 2))
  THEN HandlerValueEnd(s, i + 2 + WordRun(s, i + 2), q)
  ELSE 0

\* the rest of /data:[^;]*;base64,[a-z0-9+/=]*$/ from the first ";" at
\* position k on (0: there is none): the pattern is anchored at the end of
\* the input, so a match always runs to Len(s)
DataUriTailEnd(s, k) ==
  IF /\ k # 0
     /\ EqCI(s, k, ";base64,")
     /\ \A j \in (k + 8)..Len(s) : IsBase64(At(s, j))
  THEN Len(s)
  ELSE 0

\* /data:[^;]*;base64,[a-z0-9+/=]*$/gi at position i
DataUriMatchEnd(s, i) ==
  IF EqCI(s, i, "data:")
  THEN DataUriTailEnd(s, FirstChar(s, i + 5, ";"))
  ELSE 0

\* String.prototype.replace(re, '') with the /g flag, for a pattern whose
\* match starting at position j ends at ends[j] (0: no match at j): the
\* leftmost match at or after position i is removed and the scan resumes
\* behind it
RECURSIVE RemoveMatches(_, _, _)
RemoveMatches(s, ends, i) ==
  LET p == Least0({j \in i..Len(s) : ends[j] # 0})
  IN IF p = 0 THEN SubSeq(s, i, Len(s))
     ELSE SubSeq(s, i, p - 1) \o RemoveMatches(s, ends, ends[p] + 1)

ReplaceScript(s) ==
  RemoveMatches(s, [j \in 1..Len(s) |-> ScriptMatchEnd(s, j)], 1)

ReplaceHandler(s, q) ==
  RemoveMatches(s, [j \in 1..Len(s) |-> HandlerMatchEnd(s, j, q)], 1)

ReplaceDataUri(s) ==
  RemoveMatches(s, [j \in 1..Len(s) |-> DataUriMatchEnd(s, j)], 1)

\* sanitizeString on a JavaScript value: '' unless typeof input is 'string'
sanitizeString(x) ==
  IF ~IsString(x) THEN ""
  ELSE ReplaceDataUri(
         ReplaceHandler(ReplaceHandler(ReplaceScript(x.v), "\""), "'"))

\* String.prototype.replace(/c/g, r) for a single character c, from
\* position i on
RECURSIVE ReplaceChar(_, _, _, _)
ReplaceChar(s, i, c, r) ==
  LET p == FirstChar(s, i, c)
  IN IF p = 0 THEN SubSeq(s, i, Len(s))
     ELSE SubSeq(s, i, p - 1) \o r \o ReplaceChar(s, p + 1, c, r)

\* escapeTableCell on a JavaScript string value held in text (a TLA+ string)
escapeTableCell(text) ==
  IF text = "" THEN ""
  ELSE ReplaceChar(
         ReplaceChar(
           ReplaceChar(sanitizeString(Str(text)), 1, "|", "\\|"),
           1, "\n", " "),
         1, "+", "\\+")

(***************************************************************************)
(* Completions                                                             *)
(***************************************************************************)
Ok(s) == [exc |-> FALSE, val |-> s]
Throw(partial) == [exc |-> TRUE, val |-> partial]
Cat(a, b) == IF a.exc THEN a ELSE [exc |-> b.exc, val |-> a.val \o b.val]

(***************************************************************************)
(* Characters the module cannot spell in a string literal.  Each stand-in  *)
(* is one token that no input of the model contains and that no pattern of *)
(* sanitizeString or escapeTableCell touches, as is true of the original.  *)
(***************************************************************************)
BT == "^"                      \* U+0060, the grave accent
CheckMark == "{u2713}"         \* U+2713
CrossMark == "{u2717}"         \* U+2717
EmojiPage == "{u1F4C4}"        \* U+1F4C4
EmojiChart == "{u1F4CA}"       \* U+1F4CA
EmojiClip == "{u1F4CE}"        \* U+1F4CE
EmojiLink == "{u1F517}"        \* U+1F517
EmojiClapper == "{u1F3AC}"     \* U+1F3AC
Fence == BT \o BT \o BT

(***************************************************************************)
(* JavaScript conversions used by the renderers                            *)
(***************************************************************************)
\* Array.prototype.join on an array of strings
RECURSIVE Join(_, _)
Join(seq, sep) ==
  IF Len(seq) = 0 THEN ""
  ELSE IF Len(seq) = 1 THEN seq[1]
  ELSE seq[1] \o sep \o Join(Tail(seq), sep)

\* String(x), as template literals and toString() compute it
RECURSIVE JsToString(_)
JsToString(x) ==
  CASE x.t = "string" -> x.v
    [] x.t = "number" -> ToString(x.v)
    [] x.t = "boolean" -> (IF x.v THEN "true" ELSE "false")
    [] x.t = "null" -> "null"
    [] x.t = "undefined" -> "undefined"
    [] x.t = "array" ->
         Join([i \in 1..Len(x.v) |->
                 IF IsNullish(x.v[i]) THEN "" ELSE JsToString(x.v[i])], ",")
    [] OTHER -> "[object Object]"

\* a slip that converts only a truthy value: x ? x.toString() : undefined
OptToString_Truthy(x) == IF ~Truthy(x) THEN Undefined ELSE Str(JsToString(x))

\* x?.toString()
OptToString(x) == IF IsNullish(x) THEN Undefined ELSE Str(JsToString(x))

\* Object.entries(x) for a non-nullish x
Entries(x) ==
  CASE x.t = "object" -> x.v
    [] x.t = "array" -> [i \in 1..Len(x.v) |-> <<ToString(i - 1), x.v[i]>>]
    [] x.t = "string" ->
         [i \in 1..Len(x.v) |-> <<ToString(i - 1), Str(At(x.v, i))>>]
    [] OTHER -> <<>>

\* JSON string literal: quotes, with ", \ and line feed escaped
JsonEscape(s) ==
  ReplaceChar(ReplaceChar(ReplaceChar(s, 1, "\\", "\\\\"), 1, "\"", "\\\""),
              1, "\n", "\\n")

JsonQuote(s) == "\"" \o JsonEscape(s) \o "\""

\* JSON.stringify(x, replacer, 2) below the top level; ind is the current
\* indentation.  The values are trees, so getCircularReplacer never meets a
\* value twice and returns every value unchanged.
RECURSIVE JsonSerialize(_, _)
JsonSerialize(x, ind) ==
  CASE x.t = "string" -> JsonQuote(x.v)
    [] x.t = "number" -> ToString(x.v)
    [] x.t = "boolean" -> (IF x.v THEN "true" ELSE "false")
    [] x.t = "null" -> "null"
    [] x.t = "undefined" -> "null"
    [] x.t = "array" ->
         IF Len(x.v) = 0 THEN "[]"
         ELSE "[\n"
              \o Join([i \in 1..Len(x.v) |->
                         ind \o "  " \o JsonSerialize(x.v[i], ind \o "  ")],
                      ",\n")
              \o "\n" \o ind \o "]"
    [] OTHER ->
         LET kept == SelectSeq(x.v, LAMBDA e : e[2].t # "undefined")
         IN IF Len(kept) = 0 THEN "{}"
            ELSE "{\n"
                 \o Join([i \in 1..Len(kept) |->
                            ind \o "  " \o JsonQuote(kept[i][1]) \o ": "
                            \o JsonSerialize(kept[i][2], ind \o "  ")],
                         ",\n")
                 \o "\n" \o ind \o "}"

\* a slip that always takes the catch branch of safeStringify
safeStringify_Failed(x) == "{\"error\": \"Failed to stringify object\"}"

\* safeStringify(obj): JSON.stringify of a value that is not a JSON value
\* (undefined) is undefined, which a template literal prints as "undefined"
safeStringify(x) ==
  IF x.t = "undefined" THEN "undefined" ELSE JsonSerialize(x, "")

\* arr.map(cb).join(sep): a TypeError when arr has no map method or when cb
\* reads a field of a null or undefined element
MapJoin(arr, cb(_), sep) ==
  IF ~IsArray(arr) THEN Throw("")
  ELSE IF \E i \in 1..Len(arr.v) : IsNullish(arr.v[i]) THEN Throw("")
  ELSE Ok(Join([i \in 1..Len(arr.v) |-> cb(arr.v[i])], sep))

(***************************************************************************)
(* Rich text                                                               *)
(***************************************************************************)
\* if (on) text = mark + text + mark
Marked(on, mark, text) == IF on THEN mark \o text \o mark ELSE text

\* a slip that renders an underlined run as an italic one
Annotated_Underline(item, k) ==
  /\ Truthy(Get(item, "annotations"))
  /\ \/ Truthy(Get(Get(item, "annotations"), k))
     \/ k = "italic" /\ Truthy(Get(Get(item, "annotations"), "underline"))

\* item.annotations is truthy and its field k is truthy
Annotated(item, k) ==
  /\ Truthy(Get(item, "annotations"))
  /\ Truthy(Get(Get(item, "annotations"), k))

\* if (item.href) text = `[${text}](${sanitizeString(item.href)})`
Linked(text, href) ==
  IF Truthy(href)
  THEN "[" \o text \o "](" \o sanitizeString(href) \o ")"
  ELSE text

\* a slip that applies the code marker last, outside the other markers
RichTextRun_CodeOutermost(item) ==
  Linked(
    Marked(Annotated(item, "code"), BT,
      Marked(Annotated(item, "strikethrough"), "~~",
        Marked(Annotated(item, "italic"), "*",
          Marked(Annotated(item, "bold"), "**",
            sanitizeString(OrElse(Get(item, "plain_text"), Str(""))))))),
    Get(item, "href"))

\* the callback of extractRichText's map, for one non-nullish run
RichTextRun(item) ==
  Linked(
    Marked(Annotated(item, "strikethrough"), "~~",
      Marked(Annotated(item, "italic"), "*",
        Marked(Annotated(item, "bold"), "**",
          Marked(Annotated(item, "code"), BT,
            sanitizeString(OrElse(Get(item, "plain_text"), Str(""))))))),
    Get(item, "href"))

extractRichText(richTextArray) ==
  IF ~Truthy(richTextArray) \/ ~IsArray(richTextArray) THEN Ok("")
  ELSE MapJoin(richTextArray, RichTextRun, "")

\* extractRichText(x || [])
extractRichTextOr(x) == extractRichText(OrElse(x, Arr(<<>>)))

\* r || dflt for a completion r
OrDefault(r, dflt) ==
  IF r.exc THEN r ELSE Ok(IF r.val = "" THEN dflt ELSE r.val)

\* extractRichText(x || []) || dflt, as a completion
RichTextOrDefault(x, dflt) == OrDefault(extractRichTextOr(x), dflt)

(***************************************************************************)
(* Page properties                                                         *)
(***************************************************************************)
\* the tag a switch statement compares with its string cases
Tag(x) == IF IsString(x) THEN x.v ELSE ""

FileLink(file) ==
  "[" \o sanitizeString(OrElse(Get(file, "name"), Str("Attachment")))
  \o "]("
  \o sanitizeString(
       OrElse(OptGet(Get(file, "file"), "url"),
              OrElse(OptGet(Get(file, "external"), "url"), Str("#"))))
  \o ")"

PersonName(person) ==
  sanitizeString(OrElse(Get(person, "name"), Get(person, "id")))

OptionName(o) == sanitizeString(Get(o, "name"))

RelationId(relation) == BT \o sanitizeString(Get(relation, "id")) \o BT

\* a slip that appends the arrow whether or not the date has an end
DateValue_AlwaysArrow(date) ==
  sanitizeString(OrElse(OptGet(date, "start"), Str("")))
  \o " → " \o sanitizeString(OptGet(date, "end"))

\* case "date": start, and " → " + end when property.date.end is truthy
DateValue(date) ==
  LET start == sanitizeString(OrElse(OptGet(date, "start"), Str("")))
      end == IF Truthy(OptGet(date, "end"))
             THEN " → " \o sanitizeString(Get(date, "end"))
             ELSE ""
  IN start \o end

\* the switch on property.type of convertPropertiesToMarkdown with ty the
\* tag of property.type: the completion that assigns propValue
PropertySwitch(ty, property) ==
  LET P(k) == Get(property, k)
  IN CASE ty = "title" -> extractRichTextOr(P("title"))
       [] ty = "rich_text" -> extractRichTextOr(P("rich_text"))
       [] ty = "number" ->
            Ok(OrElse(OptToString(P("number")), Str("")).v)
       [] ty = "select" ->
            Ok(sanitizeString(OrElse(OptGet(P("select"), "name"), Str(""))))
       [] ty = "multi_select" ->
            MapJoin(OrElse(P("multi_select"), Arr(<<>>)), OptionName, ", ")
       [] ty = "date" -> Ok(DateValue(P("date")))
       [] ty = "people" ->
            MapJoin(OrElse(P("people"), Arr(<<>>)), PersonName, ", ")
       [] ty = "files" ->
            MapJoin(OrElse(P("files"), Arr(<<>>)), FileLink, ", ")
       [] ty = "checkbox" ->
            Ok(IF Truthy(P("checkbox")) THEN CheckMark ELSE CrossMark)
       [] ty = "url" -> Ok(sanitizeString(OrElse(P("url"), Str(""))))
       [] ty = "email" -> Ok(sanitizeString(OrElse(P("email"), Str(""))))
       [] ty = "phone_number" ->
            Ok(sanitizeString(OrElse(P("phone_number"), Str(""))))
       [] ty = "formula" ->
            Ok(sanitizeString(
                 OrElse(OptGet(P("formula"), "string"),
                 OrElse(OptToString(OptGet(P("formula"), "number")),
                 OrElse(OptToString(OptGet(P("formula"), "boolean")),
                        Str(""))))))
       [] ty = "status" ->
            Ok(sanitizeString(OrElse(OptGet(P("status"), "name"), Str(""))))
       [] ty = "relation" ->
            MapJoin(OrElse(P("relation"), Arr(<<>>)), RelationId, ", ")
       [] ty = "rollup" ->
            IF Tag(OptGet(P("rollup"), "type")) = "array"
            THEN Ok(safeStringify(
                      OrElse(Get(P("rollup"), "array"), Arr(<<>>))))
            ELSE Ok(sanitizeString(
                      OrElse(OptToString(OptGet(P("rollup"), "number")),
                      OrElse(OptGet(OptGet(P("rollup"), "date"), "start"),
                      OrElse(OptGet(P("rollup"), "string"), Str(""))))))
       [] ty = "created_by" ->
            Ok(sanitizeString(
                 OrElse(OptGet(P("created_by"), "name"),
                 OrElse(OptGet(P("created_by"), "id"), Str("")))))
       [] ty = "created_time" ->
            Ok(sanitizeString(OrElse(P("created_time"), Str(""))))
       [] ty = "last_edited_by" ->
            Ok(sanitizeString(
                 OrElse(OptGet(P("last_edited_by"), "name"),
                 OrElse(OptGet(P("last_edited_by"), "id"), Str("")))))
       [] ty = "last_edited_time" ->
            Ok(sanitizeString(OrElse(P("last_edited_time"), Str(""))))
       [] OTHER -> Ok("(Unsupported property type)")

\* the value cell of a non-nullish property
propValue(property) == PropertySwitch(Tag(Get(property, "type")), property)

\* markdown += `| ${escapeTableCell(sanitizeString(key))} |
\*              ${escapeTableCell(propValue)} |\n` for the completion v that
\* assigned propValue
PropertyLine(key, v) ==
  IF v.exc THEN Throw("")
  ELSE Ok("| " \o escapeTableCell(sanitizeString(Str(key)))
          \o " | " \o escapeTableCell(v.val) \o " |\n")

\* one iteration of the loop of convertPropertiesToMarkdown: the row of
\* the entry <<key, prop>>; reading property.type of a nullish prop throws
PropertyRow(entry) ==
  IF IsNullish(entry[2]) THEN Throw("")
  ELSE PropertyLine(entry[1], propValue(entry[2]))

\* a slip that leaves the title-typed property out of the table
RECURSIVE PropertyRows_SkipTitle(_, _)
PropertyRows_SkipTitle(entries, i) ==
  IF i > Len(entries) THEN Ok("")
  ELSE IF /\ ~IsNullish(entries[i][2])
          /\ Tag(Get(entries[i][2], "type")) = "title"
       THEN PropertyRows_SkipTitle(entries, i + 1)
  ELSE Cat(PropertyRow(entries[i]), PropertyRows_SkipTitle(entries, i + 1))

RECURSIVE PropertyRows(_, _)
PropertyRows(entries, i) ==
  IF i > Len(entries) THEN Ok("")
  ELSE Cat(PropertyRow(entries[i]), PropertyRows(entries, i + 1))

convertPropertiesToMarkdown(properties) ==
  IF ~Truthy(properties) THEN Ok("")
  ELSE Cat(Ok("## Properties\n\n| Property | Value |\n|------------|----|\n"),
           PropertyRows(Entries(properties), 1))

\* f applied to the text of a completion
Then(r, f(_)) == IF r.exc THEN r ELSE Ok(f(r.val))

\* the first title-typed property holding an array, in iteration order
RECURSIVE FirstTitle(_, _)
FirstTitle(entries, i) ==
  IF i > Len(entries) THEN Ok("")
  ELSE IF IsNullish(entries[i][2]) THEN Throw("")
  ELSE IF /\ Tag(Get(entries[i][2], "type")) = "title"
          /\ IsArray(Get(entries[i][2], "title"))
       THEN extractRichText(Get(entries[i][2], "title"))
  ELSE FirstTitle(entries, i + 1)

\* a slip that puts the default title where no title is found
extractPageTitle_Untitled(page) ==
  IF ~Truthy(page) \/ ~Truthy(Get(page, "properties")) THEN Ok("Untitled")
  ELSE Then(FirstTitle(Entries(Get(page, "properties")), 1),
            LAMBDA t : IF t = "" THEN "Untitled" ELSE t)

extractPageTitle(page) ==
  IF ~Truthy(page) \/ ~Truthy(Get(page, "properties")) THEN Ok("")
  ELSE FirstTitle(Entries(Get(page, "properties")), 1)

(***************************************************************************)
(* Pages                                                                   *)
(***************************************************************************)
PageNote ==
  "\n\n> This page contains child blocks. You can retrieve them using "
  \o BT \o "retrieveBlockChildren" \o BT \o ".\n"

ViewLink(url) == "\n[View in Notion](" \o sanitizeString(url) \o ")\n"

\* a slip that emits the link before the note
convertPageToMarkdown_LinkFirst(page) ==
  IF ~Truthy(page) THEN Ok("")
  ELSE
    LET title == Then(extractPageTitle(page),
                      LAMBDA t : sanitizeString(Str(t)))
        heading == Then(title,
                        LAMBDA t : IF t # "" THEN "# " \o t \o "\n\n" ELSE "")
        note == PageNote \o "> Block ID: " \o BT
                \o sanitizeString(Get(page, "id")) \o BT \o "\n"
        link == IF Truthy(Get(page, "url"))
                THEN ViewLink(Get(page, "url")) ELSE ""
    IN Cat(Cat(heading, convertPropertiesToMarkdown(Get(page, "properties"))),
           Ok(link \o note))

convertPageToMarkdown(page) ==
  IF ~Truthy(page) THEN Ok("")
  ELSE
    LET title == Then(extractPageTitle(page),
                      LAMBDA t : sanitizeString(Str(t)))
        heading == Then(title,
                        LAMBDA t : IF t # "" THEN "# " \o t \o "\n\n" ELSE "")
        note == PageNote \o "> Block ID: " \o BT
                \o sanitizeString(Get(page, "id")) \o BT \o "\n"
        link == IF Truthy(Get(page, "url"))
                THEN ViewLink(Get(page, "url")) ELSE ""
    IN Cat(Cat(heading, convertPropertiesToMarkdown(Get(page, "properties"))),
           Ok(note \o link))

(***************************************************************************)
(* Databases                                                               *)
(***************************************************************************)
\* a slip that joins the option names without the space after the comma
OptionsDetails_NoSpace(options) ==
  Cat(Ok("Options: "), MapJoin(OrElse(options, Arr(<<>>)), OptionName, ","))

\* "Options: " and the option names of options.map(...).join(", ")
OptionsDetails(options) ==
  Cat(Ok("Options: "), MapJoin(OrElse(options, Arr(<<>>)), OptionName, ", "))

\* the switch on propType of convertDatabaseToMarkdown: the completion
\* that assigns details
SchemaDetails(prop, propType) ==
  CASE propType \in {"select", "multi_select"} ->
         OptionsDetails(OptGet(Get(prop, propType), "options"))
    [] propType = "relation" ->
         Ok("Related DB: " \o sanitizeString(
              OrElse(OptGet(Get(prop, "relation"), "database_id"), Str(""))))
    [] propType = "formula" ->
         Ok("Formula: " \o sanitizeString(
              OrElse(OptGet(Get(prop, "formula"), "expression"), Str(""))))
    [] propType = "rollup" ->
         Ok("Rollup: " \o sanitizeString(
              OrElse(OptGet(Get(prop, "rollup"), "function"), Str(""))))
    [] propType \in {"created_by", "last_edited_by"} -> Ok("User reference")
    [] propType \in {"created_time", "last_edited_time"} -> Ok("Timestamp")
    [] propType = "date" -> Ok("Date or date range")
    [] propType = "email" -> Ok("Email address")
    [] propType = "files" -> Ok("File attachments")
    [] propType = "number" ->
         Ok("Format: " \o sanitizeString(
              OrElse(OptGet(Get(prop, "number"), "format"),
                     Str("plain number"))))
    [] propType = "people" -> Ok("People reference")
    [] propType = "phone_number" -> Ok("Phone number")
    [] propType = "rich_text" -> Ok("Formatted text")
    [] propType = "status" ->
         OptionsDetails(OptGet(Get(prop, "status"), "options"))
    [] propType = "title" -> Ok("Database title")
    [] propType = "url" -> Ok("URL link")
    [] propType = "checkbox" -> Ok("Boolean value")
    [] OTHER -> Ok("")

\* markdown += `| ${escapeTableCell(propName)} | ${propType} |
\*              ${escapeTableCell(details)} |\n` for the completion that
\* assigned details.  The type cell is propType itself: it is sanitized but
\* not cell-escaped.
SchemaLine(propName, propType, details) ==
  IF details.exc THEN Throw("")
  ELSE Ok("| " \o escapeTableCell(propName) \o " | " \o propType
          \o " | " \o escapeTableCell(details.val) \o " |\n")

\* propName, propType and details of a non-nullish prop
SchemaTyped(key, prop, propType) ==
  SchemaLine(sanitizeString(OrElse(Get(prop, "name"), Str(key))), propType,
             SchemaDetails(prop, propType))

\* the callback of forEach in convertDatabaseToMarkdown for the entry
\* <<key, prop>>; reading prop.name of a nullish prop throws
SchemaRow(entry) ==
  IF IsNullish(entry[2]) THEN Throw("")
  ELSE SchemaTyped(entry[1], entry[2],
         sanitizeString(OrElse(Get(entry[2], "type"), Str("unknown"))))

RECURSIVE SchemaRows(_, _)
SchemaRows(entries, i) ==
  IF i > Len(entries) THEN Ok("")
  ELSE Cat(SchemaRow(entries[i]), SchemaRows(entries, i + 1))

convertDatabaseToMarkdown(database) ==
  IF ~Truthy(database) THEN Ok("")
  ELSE
    LET title == Then(extractRichTextOr(Get(database, "title")),
                      LAMBDA t : sanitizeString(Str(t)))
        heading == Then(title,
                        LAMBDA t : IF t # "" THEN "# " \o t \o " (Database)\n\n"
                                   ELSE "")
        description == Then(extractRichTextOr(Get(database, "description")),
                            LAMBDA t : sanitizeString(Str(t)))
        para == Then(description,
                     LAMBDA t : IF t # "" THEN t \o "\n\n" ELSE "")
        schema == IF Truthy(Get(database, "properties"))
                  THEN Cat(Cat(Ok("## Properties\n\n"
                                  \o "| Property Name | Type | Details |\n"
                                  \o "|------------|------|------|\n"),
                               SchemaRows(Entries(Get(database, "properties")),
                                          1)),
                           Ok("\n"))
                  ELSE Ok("")
        link == IF Truthy(Get(database, "url"))
                THEN ViewLink(Get(database, "url")) ELSE ""
    IN Cat(Cat(Cat(heading, para), schema), Ok(link))

(***************************************************************************)
(* Blocks                                                                  *)
(***************************************************************************)
renderParagraph(paragraph) ==
  IF ~Truthy(paragraph) \/ ~Truthy(Get(paragraph, "rich_text")) THEN Ok("")
  ELSE extractRichText(Get(paragraph, "rich_text"))

\* u || "#"
OrHash(u) == IF u = "" THEN "#" ELSE u

\* sanitizeString(type === "external" ? content.external?.url
\*                                    : content.file?.url) || "#"
MediaUrl(content) ==
  OrHash(sanitizeString(
           IF Tag(OrElse(Get(content, "type"), Str(""))) = "external"
           THEN OptGet(Get(content, "external"), "url")
           ELSE OptGet(Get(content, "file"), "url")))

\* `| ${cells.join(" | ")} |` for the completions rs of the cells; a
\* TypeError thrown while a cell is mapped ends the row
TableCells(rs) ==
  IF \E i \in 1..Len(rs) : rs[i].exc THEN Throw("")
  ELSE Ok("| " \o Join([i \in 1..Len(rs) |-> escapeTableCell(rs[i].val)],
                       " | ") \o " |")

TableRow(cells) ==
  TableCells([i \in 1..Len(cells.v) |-> extractRichText(cells.v[i])])

\* the target of a link_to_page block
LinkTarget(c, isPage, isDb) ==
  EmojiLink \o " **"
  \o (IF isDb THEN "Link to database" ELSE "Link to page")
  \o "**: " \o BT
  \o (IF isPage THEN sanitizeString(Get(c, "page_id"))
      ELSE IF isDb THEN sanitizeString(Get(c, "database_id"))
      ELSE "")
  \o BT

\* `[${caption || url}](${url})` of a bookmark block with sanitized url
Bookmark(c, url) ==
  Cat(Cat(Ok("["), RichTextOrDefault(Get(c, "caption"), url)),
      Ok("](" \o url \o ")"))

\* a slip that names the type as it came
UnsupportedBlockType_Raw(blockType) ==
  Ok("*Unsupported block type: " \o JsToString(blockType) \o "*")

\* the default arm of the switch of renderBlock
UnsupportedBlockType(blockType) ==
  Ok("*Unsupported block type: " \o sanitizeString(blockType) \o "*")

\* the switch of renderBlock for blockType with content c, where text is
\* extractRichText(blockContent.rich_text || []) and url is the sanitized
\* media address, each evaluated only by the cases that use it
BlockSwitch(block, blockType, c, text, url) ==
  LET ty == Tag(blockType)
      Pre(a, r) == Cat(Ok(a), r)
      Wrap(a, r, b) == Cat(Cat(Ok(a), r), Ok(b))
  IN IF ~Truthy(blockType) THEN Ok("")
     ELSE IF ~Truthy(c) /\ ty # "divider" THEN Ok("")
     ELSE
       CASE ty = "paragraph" -> renderParagraph(c)
         [] ty = "heading_1" -> Pre("# ", text)
         [] ty = "heading_2" -> Pre("## ", text)
         [] ty = "heading_3" -> Pre("### ", text)
         [] ty = "bulleted_list_item" -> Pre("- ", text)
         [] ty = "numbered_list_item" -> Pre("1. ", text)
         [] ty = "to_do" ->
              Pre("- [" \o (IF Truthy(Get(c, "checked")) THEN "x" ELSE " ")
                  \o "] ", text)
         [] ty = "toggle" ->
              Wrap("<details>\n<summary>", text,
                   "</summary>\n\n*Additional API request is needed to "
                   \o "display child blocks*\n\n</details>")
         [] ty = "child_page" ->
              Ok(EmojiPage \o " **Child Page**: "
                 \o sanitizeString(OrElse(Get(c, "title"), Str("Untitled"))))
         [] ty = "image" ->
              Wrap("![", RichTextOrDefault(Get(c, "caption"), "image"),
                   "](" \o url \o ")")
         [] ty = "divider" -> Ok("---")
         [] ty = "quote" -> Pre("> ", text)
         [] ty = "code" ->
              Wrap(Fence
                   \o sanitizeString(OrElse(Get(c, "language"),
                                            Str("plaintext")))
                   \o "\n", text, "\n" \o Fence)
         [] ty = "callout" ->
              Pre("> " \o sanitizeString(
                            OrElse(OptGet(Get(c, "icon"), "emoji"), Str("")))
                  \o " ", text)
         [] ty = "bookmark" ->
              Bookmark(c, sanitizeString(OrElse(Get(c, "url"), Str(""))))
         [] ty = "table" ->
              Ok("*Table data ("
                 \o JsToString(OrElse(Get(c, "table_width"), Num(0)))
                 \o " columns) - Additional API request is needed to "
                 \o "display details*")
         [] ty = "child_database" ->
              Ok(EmojiChart \o " **Embedded Database**: " \o BT
                 \o sanitizeString(Get(block, "id")) \o BT)
         [] ty = "breadcrumb" -> Ok("[breadcrumb navigation]")
         [] ty = "embed" ->
              Ok("[Embedded content]("
                 \o sanitizeString(OrElse(Get(c, "url"), Str(""))) \o ")")
         [] ty = "equation" ->
              Ok("$$" \o sanitizeString(OrElse(Get(c, "expression"), Str("")))
                 \o "$$")
         [] ty = "file" ->
              Ok(EmojiClip \o " ["
                 \o sanitizeString(OrElse(Get(c, "name"), Str("File")))
                 \o "](" \o url \o ")")
         [] ty = "link_preview" ->
              Ok(EmojiLink \o " [Preview]("
                 \o sanitizeString(OrElse(Get(c, "url"), Str(""))) \o ")")
         [] ty = "link_to_page" ->
              Ok(LinkTarget(c, Truthy(Get(c, "page_id")),
                            /\ ~Truthy(Get(c, "page_id"))
                            /\ Truthy(Get(c, "database_id"))))
         [] ty = "pdf" ->
              Wrap(EmojiPage \o " [",
                   RichTextOrDefault(Get(c, "caption"), "PDF"),
                   "](" \o url \o ")")
         [] ty = "synced_block" ->
              Ok("*Synced Block ("
                 \o (IF Truthy(Get(c, "synced_from"))
                     THEN BT \o sanitizeString(
                                  Get(Get(c, "synced_from"), "block_id"))
                          \o BT
                     ELSE "original")
                 \o ") - Additional API request is needed to display "
                 \o "content*")
         [] ty = "table_of_contents" -> Ok("[TOC]")
         [] ty = "table_row" ->
              IF ~Truthy(Get(c, "cells")) \/ ~IsArray(Get(c, "cells"))
              THEN Ok("*Empty table row*")
              ELSE TableRow(Get(c, "cells"))
         [] ty = "template" -> Wrap("*Template Block: ", text, "*")
         [] ty = "video" ->
              Wrap(EmojiClapper \o " [",
                   RichTextOrDefault(Get(c, "caption"), "Video"),
                   "](" \o url \o ")")
         [] ty = "unsupported" -> Ok("*Unsupported block*")
         [] OTHER -> UnsupportedBlockType(blockType)

\* a slip that does not exempt the divider from the guard on the payload
BlockContent_DividerNotExempt(block, blockType, c) ==
  IF ~Truthy(c) THEN Ok("")
  ELSE BlockSwitch(block, blockType, c,
                   extractRichTextOr(Get(c, "rich_text")), MediaUrl(c))

\* blockContent = block[blockType], handed to the switch
BlockContent(block, blockType, c) ==
  BlockSwitch(block, blockType, c,
              extractRichTextOr(Get(c, "rich_text")), MediaUrl(c))

\* a slip that ends the text of every block with a line feed
renderBlock_TrailingNewline(block) ==
  IF ~Truthy(block) THEN Ok("")
  ELSE Cat(BlockContent(block, Get(block, "type"),
                        Get(block, JsToString(Get(block, "type")))),
           Ok("\n"))

renderBlock(block) ==
  IF ~Truthy(block) THEN Ok("")
  ELSE BlockContent(block, Get(block, "type"),
                    Get(block, JsToString(Get(block, "type"))))

\* a slip that announces the children of a block
convertBlockToMarkdown_Children(block) ==
  IF ~Truthy(block) THEN Ok("")
  ELSE Cat(renderBlock(block),
           Ok(IF Truthy(Get(block, "has_children"))
              THEN "\n\n*Child blocks*" ELSE ""))

convertBlockToMarkdown(block) ==
  IF ~Truthy(block) THEN Ok("") ELSE renderBlock(block)

(***************************************************************************)
(* Lists                                                                   *)
(***************************************************************************)
\* "## [title](url)", the ID line and the horizontal rule of an
\* abbreviated page or database item
Abbreviated(title, item) ==
  Then(title,
       LAMBDA t : "## [" \o sanitizeString(Str(t)) \o "]("
                  \o sanitizeString(OrElse(Get(item, "url"), Str("#")))
                  \o ")\n\n"
                  \o "ID: " \o BT \o sanitizeString(Get(item, "id")) \o BT
                  \o "\n\n---\n\n")

\* a slip that abbreviates every page and database item, whatever the kind
\* of the first result
ListItem_AlwaysAbbreviated(item, resultType) ==
  IF IsNullish(item) THEN Throw("")
  ELSE
    LET kind == Tag(Get(item, "object"))
    IN CASE kind = "page" ->
              Abbreviated(
                Then(extractPageTitle(item),
                     LAMBDA t : IF t = "" THEN "Untitled" ELSE t), item)
         [] kind = "database" ->
              Abbreviated(
                RichTextOrDefault(Get(item, "title"), "Untitled Database"),
                item)
         [] kind = "block" -> Cat(renderBlock(item), Ok("\n\n"))
         [] OTHER ->
              Ok(Fence \o "json\n" \o safeStringify(item) \o "\n" \o Fence
                 \o "\n\n")

\* one iteration of the loop of convertListToMarkdown; reading item.object
\* of a nullish item throws
ListItem(item, resultType) ==
  IF IsNullish(item) THEN Throw("")
  ELSE
    LET kind == Tag(Get(item, "object"))
    IN CASE kind = "page" ->
              IF resultType = "page"
              THEN Abbreviated(
                     Then(extractPageTitle(item),
                          LAMBDA t : IF t = "" THEN "Untitled" ELSE t), item)
              ELSE Cat(convertPageToMarkdown(item), Ok("\n\n---\n\n"))
         [] kind = "database" ->
              IF resultType = "database"
              THEN Abbreviated(
                     RichTextOrDefault(Get(item, "title"), "Untitled Database"),
                     item)
              ELSE Cat(convertDatabaseToMarkdown(item), Ok("\n\n---\n\n"))
         [] kind = "block" -> Cat(renderBlock(item), Ok("\n\n"))
         [] OTHER ->
              Ok(Fence \o "json\n" \o safeStringify(item) \o "\n" \o Fence
                 \o "\n\n")

RECURSIVE ListItems(_, _, _)
ListItems(results, i, resultType) ==
  IF i > Len(results) THEN Ok("")
  ELSE Cat(ListItem(results[i], resultType),
           ListItems(results, i + 1, resultType))

ListHeading(resultType) ==
  CASE resultType = "page" -> "# Search Results (Pages)\n\n"
    [] resultType = "database" -> "# Search Results (Databases)\n\n"
    [] resultType = "block" -> "# Block Contents\n\n"
    [] OTHER -> "# Results List\n\n"

\* a slip that appends the note whatever has_more says
Pagination_Always(list) ==
  "\n> More results available. Use " \o BT \o "start_cursor" \o BT
  \o " parameter with the next request.\n"
  \o (IF Truthy(Get(list, "next_cursor"))
      THEN "> Next cursor: " \o BT
           \o sanitizeString(Get(list, "next_cursor")) \o BT \o "\n"
      ELSE "")

Pagination(list) ==
  IF Truthy(Get(list, "has_more"))
  THEN "\n> More results available. Use " \o BT \o "start_cursor" \o BT
       \o " parameter with the next request.\n"
       \o (IF Truthy(Get(list, "next_cursor"))
           THEN "> Next cursor: " \o BT
                \o sanitizeString(Get(list, "next_cursor")) \o BT \o "\n"
           ELSE "")
  ELSE ""

convertListToMarkdown(list) ==
  IF \/ ~Truthy(list)
     \/ ~Truthy(Get(list, "results"))
     \/ ~IsArray(Get(list, "results"))
  THEN Ok(Fence \o "\nNo results\n" \o Fence)
  ELSE
    LET results == Get(list, "results").v
        firstResult == IF Len(results) > 0 THEN results[1] ELSE Undefined
        resultType == Tag(OrElse(OptGet(firstResult, "object"),
                                 Str("unknown")))
    IN Cat(Cat(Ok(ListHeading(resultType)),
               ListItems(results, 1, resultType)),
           Ok(Pagination(list)))

(***************************************************************************)
(* The dispatcher                                                          *)
(***************************************************************************)
ErrorMessage ==
  "Error converting response to Markdown. "
  \o "Please try using the JSON format instead."

\* the switch on response.object inside the try block
Dispatch(response) ==
  LET kind == Tag(Get(response, "object"))
  IN CASE kind = "page" -> convertPageToMarkdown(response)
       [] kind = "database" -> convertDatabaseToMarkdown(response)
       [] kind = "block" -> convertBlockToMarkdown(response)
       [] kind = "list" -> convertListToMarkdown(response)
       [] OTHER ->
            Ok(Fence \o "json\n" \o safeStringify(response) \o "\n" \o Fence)

\* a slip that lets the exception of a renderer escape
Caught_Rethrown(r) == r

\* a slip that returns the text built so far in front of the message
Caught_KeepPartial(r) == IF r.exc THEN Ok(r.val \o ErrorMessage) ELSE r

\* the catch clause, applied to the completion r of the try block: it
\* returns the fixed message and drops what was built
Caught(r) == IF r.exc THEN Ok(ErrorMessage) ELSE r

convertToMarkdown(response) ==
  IF ~Truthy(response) THEN Ok("") ELSE Caught(Dispatch(response))

(***************************************************************************)
(* Specification of the string utilities                                   *)
(***************************************************************************)
MaxFrags == 3

SanFrags ==
  { "<script>", "</script>", "<scr", "ipt>", "x", " ",
    "data:a;base64,QQ==", "onx=\"y\"", "|", "\\", "\n" }

RECURSIVE FragStrings(_)
FragStrings(n) ==
  IF n = 0 THEN {""}
  ELSE LET prev == FragStrings(n - 1)
       IN prev \cup {p \o f : p \in prev, f \in SanFrags}

InitSanitize ==
  /\ input \in {Str(s) : s \in FragStrings(MaxFrags)}
  /\ output = Ok("")
  /\ pc = "ready"
  /\ op = "none"
  /\ config = [enabledTools |-> Undefined, markdownConversion |-> Undefined,
               enabledToolsSet |-> {}, enableMarkdownConversion |-> FALSE]
  /\ calls = <<>>
  /\ listed = <<>>

SanitizeString ==
  /\ pc = "ready"
  /\ output' = Ok(sanitizeString(input))
  /\ pc' = "done"
  /\ op' = "sanitizeString"
  /\ UNCHANGED <<input, config, calls, listed>>

EscapeTableCell ==
  /\ pc = "ready"
  /\ output' = Ok(escapeTableCell(input.v))
  /\ pc' = "done"
  /\ op' = "escapeTableCell"
  /\ UNCHANGED <<input, config, calls, listed>>

NextSanitize == SanitizeString \/ EscapeTableCell

SpecSanitize == InitSanitize /\ [][NextSanitize]_vars

(***************************************************************************)
(* Responses the renderer is applied to: values as JSON.parse yields them  *)
(***************************************************************************)
MaxProps == 2
MaxResults == 2

F(k, v) == <<k, v>>

SeqsUpTo(S, n) == UNION {[1..k -> S] : k \in 0..n}

TextScript == "<script>x</script>"
TextNested == "<scr<script>y</script>ipt>x</script>"
UserTexts == {"Bug bash", "a|b\nc+d", TextScript, TextNested}

Annotations(bold, italic) ==
  Obj(<<F("bold", Bool(bold)), F("italic", Bool(italic)),
        F("strikethrough", Bool(FALSE)), F("underline", Bool(FALSE)),
        F("code", Bool(FALSE)), F("color", Str("default"))>>)

Run(txt, bold, italic, href) ==
  Obj(<<F("type", Str("text")), F("annotations", Annotations(bold, italic)),
        F("plain_text", Str(txt)), F("href", href)>>)

PlainRun(txt) == Run(txt, FALSE, FALSE, Null)

\* a rich-text run whose annotations named in marks are true
Styled(txt, marks, color, href) ==
  Obj(<<F("type", Str("text")),
        F("annotations",
          Obj(<<F("bold", Bool("bold" \in marks)),
                F("italic", Bool("italic" \in marks)),
                F("strikethrough", Bool("strikethrough" \in marks)),
                F("underline", Bool("underline" \in marks)),
                F("code", Bool("code" \in marks)),
                F("color", Str(color))>>)),
        F("plain_text", Str(txt)), F("href", href)>>)

RichTexts ==
  {Arr(<<>>), Arr(<<PlainRun("")>>)}
  \cup {Arr(<<PlainRun(t)>>) : t \in UserTexts}
  \cup {Arr(<<Run("x", TRUE, TRUE, Null), PlainRun("y")>>),
        Arr(<<Run("x", FALSE, FALSE, Str("https://e.x/" \o TextScript))>>),
        Arr(<<PlainRun("<script>"), PlainRun("</script>")>>),
        Arr(<<Styled("u", {"underline", "bold"}, "red", Null), PlainRun("y")>>)}

\* rich text with a null run: a malformed response
BadRichTexts == {Arr(<<PlainRun("a"), Null>>)}

Prop(type, k, v) == Obj(<<F("id", Str("p")), F("type", Str(type)), F(k, v)>>)

Named(n) == Obj(<<F("id", Str("u1")), F("name", Str(n))>>)

DatePayload(start, end) ==
  Obj(<<F("start", start), F("end", end), F("time_zone", Null)>>)

DateProps ==
  {Prop("date", "date", d) :
     d \in {DatePayload(Str("2023-02-23"), Null),
            DatePayload(Str("2023-02-23"), Str("2023-03-01")),
            DatePayload(Str("2023-02-23T10:00:00.000+09:00"), Null),
            DatePayload(Str("2023-02-23"), Str("")),
            Obj(<<F("start", Str("2023-02-23"))>>),
            Null}}

TitleProps == {Prop("title", "title", r) : r \in RichTexts \cup {Null}}

\* property values of the shapes the data model describes
GoodProps ==
  TitleProps \cup DateProps
  \cup {Prop("rich_text", "rich_text", r) :
          r \in {Arr(<<PlainRun("a|b\nc+d")>>), Arr(<<PlainRun(TextNested)>>),
                 Arr(<<Styled("u", {"underline"}, "blue_background",
                              Str("https://e.x/u"))>>)}}
  \cup {Prop("number", "number", n) : n \in {Num(0), Num(42), Num(-7), Null}}
  \cup {Prop("select", "select", x) : x \in {Named("a|b"), Null}}
  \cup {Prop("multi_select", "multi_select", x) :
          x \in {Arr(<<>>), Arr(<<Named("A"), Named("B")>>)}}
  \cup {Prop("people", "people",
             Arr(<<Named("Ann"), Obj(<<F("id", Str("u2"))>>)>>))}
  \cup {Prop("files", "files",
             Arr(<<Obj(<<F("name", Str("f.png")),
                         F("file", Obj(<<F("url", Str("https://e.x/f"))>>))>>),
                   Obj(<<F("external",
                           Obj(<<F("url", Str("https://e.x/g"))>>))>>),
                   Obj(<<>>)>>))}
  \cup {Prop("checkbox", "checkbox", Bool(b)) : b \in BOOLEAN}
  \cup {Prop("url", "url", x) : x \in {Str("https://e.x/?a=1|2"), Null}}
  \cup {Prop("email", "email", Str("a+b@e.x")),
        Prop("phone_number", "phone_number", Str("+1 555"))}
  \cup {Prop("formula", "formula", x) :
          x \in {Obj(<<F("type", Str("string")), F("string", Str("s"))>>),
                 Obj(<<F("type", Str("number")), F("number", Num(0))>>),
                 Obj(<<F("type", Str("boolean")), F("boolean", Bool(FALSE))>>),
                 Obj(<<F("type", Str("string")), F("string", Null)>>),
                 Obj(<<F("type", Str("number")), F("number", Null)>>),
                 Obj(<<F("type", Str("number")), F("number", Num(42))>>),
                 Obj(<<F("type", Str("boolean")), F("boolean", Bool(TRUE))>>),
                 Obj(<<F("type", Str("string")), F("string", Str("")),
                       F("number", Num(0))>>)}}
  \cup {Prop("status", "status", Named("Not started"))}
  \cup {Prop("relation", "relation",
             Arr(<<Obj(<<F("id", Str("r1"))>>), Obj(<<F("id", Str("r2"))>>)>>))}
  \cup {Prop("rollup", "rollup", x) :
          x \in {Obj(<<F("type", Str("array")),
                       F("array", Arr(<<Str(TextScript), Num(1)>>))>>),
                 Obj(<<F("type", Str("number")), F("number", Num(0))>>),
                 Obj(<<F("type", Str("number")), F("number", Num(42))>>),
                 Obj(<<F("type", Str("number")), F("number", Null)>>),
                 Obj(<<F("type", Str("date")),
                       F("date", DatePayload(Str("2023-02-23"), Null))>>)}}
  \cup {Prop("created_by", "created_by", Obj(<<F("id", Str("u3"))>>)),
        Prop("last_edited_by", "last_edited_by", Named("Bob")),
        Prop("created_time", "created_time", Str("2022-10-24T22:54:00.000Z")),
        Prop("last_edited_time", "last_edited_time", Null)}
  \cup {Prop("button", "button", Obj(<<>>)),
        Obj(<<F("id", Str("p"))>>)}

\* property values that break the data model
BadProps ==
  {Null}
  \cup {Prop("title", "title", r) : r \in BadRichTexts}
  \cup {Prop("multi_select", "multi_select", x) :
          x \in {Arr(<<Named("A"), Null>>), Obj(<<F("name", Str("A"))>>)}}

\* the properties used to build mappings of more than one entry
CoreProps ==
  {Prop("title", "title", Arr(<<PlainRun("Bug bash")>>)),
   Prop("title", "title", Null),
   Prop("title", "title", Arr(<<>>)),
   Prop("title", "title", Arr(<<PlainRun("Tuscan kale")>>)),
   Prop("date", "date", DatePayload(Str("2023-02-23"), Str("2023-03-01"))),
   Prop("number", "number", Num(0)),
   Prop("select", "select", Named("a|b")),
   Prop("button", "button", Obj(<<>>)),
   Null}

PropNames == <<"Name", "a|b", "Due\ndate", "on+off">>

Mapping(props) == Obj([i \in 1..Len(props) |-> F(PropNames[i], props[i])])

PropertyMappings ==
  {Mapping(ps) : ps \in SeqsUpTo(CoreProps, MaxProps)}
  \cup {Mapping(<<p>>) : p \in GoodProps \cup BadProps}

PageIds == {"be633bf1-dfa0-436d-b259-571129a590e5"}
PageUrls == {Str("https://www.notion.so/Bug-bash"), Null}

Page(id, url, properties) ==
  Obj(<<F("object", Str("page")), F("id", Str(id)),
        F("properties", properties), F("url", url)>>)

Pages ==
  {Page(id, url, m) : id \in PageIds, url \in PageUrls, m \in PropertyMappings}
  \cup {Obj(<<F("object", Str("page")), F("id", Str(TextScript))>>),
        Obj(<<F("object", Str("page")), F("properties", Null),
              F("url", Str("https://e.x/" \o TextScript))>>)}


Options(names) == Obj(<<F("options", Arr([i \in 1..Len(names) |-> Named(names[i])]))>>)

\* schema entries of a database
GoodSchemas ==
  {Prop("multi_select", "multi_select", Options(<<"A", "B">>)),
   Prop("select", "select", Options(<<"a|b">>)),
   Prop("select", "select", Obj(<<>>)),
   Prop("status", "status", Options(<<"Todo", TextScript>>)),
   Prop("relation", "relation", Obj(<<F("database_id", Str("d1"))>>)),
   Prop("formula", "formula", Obj(<<F("expression", Str("1 + 2 | 3"))>>)),
   Prop("rollup", "rollup", Obj(<<F("function", Str("sum"))>>)),
   Prop("number", "number", Obj(<<F("format", Str("dollar"))>>)),
   Prop("number", "number", Obj(<<>>)),
   Prop("title", "title", Obj(<<>>)),
   Prop("rich_text", "rich_text", Obj(<<>>)),
   Prop("date", "date", Obj(<<>>)),
   Prop("checkbox", "checkbox", Obj(<<>>)),
   Prop("created_by", "created_by", Obj(<<>>)),
   Prop("last_edited_time", "last_edited_time", Obj(<<>>)),
   Prop("people", "people", Obj(<<>>)),
   Prop("files", "files", Obj(<<>>)),
   Prop("email", "email", Obj(<<>>)),
   Prop("phone_number", "phone_number", Obj(<<>>)),
   Prop("url", "url", Obj(<<>>)),
   Prop("button", "button", Obj(<<>>)),
   Obj(<<F("id", Str("p")), F("name", Str("Shown|name")),
         F("type", Str("url")), F("url", Obj(<<>>))>>),
   Obj(<<F("id", Str("p")), F("name", Str("Odd")), F("type", Str("a|b"))>>),
   Obj(<<F("id", Str("p")), F("name", Str("Odd")), F("type", Str(TextNested))>>),
   Obj(<<F("id", Str("p"))>>)}

BadSchemas ==
  {Null,
   Prop("select", "select", Obj(<<F("options", Arr(<<Named("A"), Null>>))>>)),
   Prop("status", "status", Obj(<<F("options", Str("A,B"))>>))}

CoreSchemas ==
  {Prop("multi_select", "multi_select", Options(<<"A", "B">>)),
   Prop("title", "title", Obj(<<>>)),
   Prop("formula", "formula", Obj(<<F("expression", Str("1 + 2 | 3"))>>)),
   Obj(<<F("id", Str("p")), F("name", Str("Odd")), F("type", Str("a|b"))>>),
   Null}

SchemaMappings ==
  {Mapping(ps) : ps \in SeqsUpTo(CoreSchemas, MaxProps)}
  \cup {Mapping(<<p>>) : p \in GoodSchemas \cup BadSchemas}

Database(title, description, properties, url) ==
  Obj(<<F("object", Str("database")), F("id", Str("d0")), F("title", title),
        F("description", description), F("properties", properties),
        F("url", url)>>)

Databases ==
  {Database(Arr(<<PlainRun("Tasks")>>), Arr(<<>>), m, url) :
     m \in SchemaMappings \cup {Null}, url \in PageUrls}
  \cup {Database(t, d, Mapping(<<>>), Null) :
          t \in RichTexts \cup BadRichTexts \cup {Null},
          d \in {Null, Arr(<<PlainRun(TextScript)>>)}}

Block(type, content, hasChildren) ==
  Obj(<<F("object", Str("block")), F("id", Str("b0")),
        F("has_children", Bool(hasChildren)), F("type", Str(type)),
        F(type, content)>>)

RT(r) == Obj(<<F("rich_text", r)>>)

TextBlockTypes ==
  {"paragraph", "heading_1", "heading_2", "heading_3", "bulleted_list_item",
   "numbered_list_item", "to_do", "toggle", "quote", "code", "callout",
   "template"}

Media(kind, url, caption) ==
  Obj(<<F("type", Str(kind)), F(kind, Obj(<<F("url", url)>>)),
        F("caption", caption)>>)

\* rich text in every combination of the four rendered annotations, with
\* and without a link, alone and in sequences of two runs
StyledTexts ==
  {Arr(<<Styled(t, m, "default", h)>>) :
     t \in {"x", "a" \o TextScript},
     m \in SUBSET {"code", "bold", "italic", "strikethrough"},
     h \in {Null, Str("https://e.x/a")}}
  \cup {Arr(<<r1, r2>>) :
          r1, r2 \in {PlainRun("y"), PlainRun(""),
                      Styled("x", {"bold", "code"}, "default", Null),
                      Styled("z", {"italic"}, "default", Str("https://e.x/z")),
                      Obj(<<F("plain_text", Str("bare"))>>),
                      Obj(<<F("annotations", Null), F("href", Str(""))>>)}}
  \cup {Arr(<<>>)}

Blocks ==
  {Block(ty, RT(r), FALSE) :
     ty \in TextBlockTypes,
     r \in {Arr(<<PlainRun("Lacinato kale")>>), Arr(<<PlainRun(TextScript)>>),
            Arr(<<PlainRun(TextNested)>>),
            Arr(<<Styled("u", {"underline", "italic"}, "red", Null)>>), Null}
           \cup BadRichTexts}
  \cup {Block("paragraph", RT(r), FALSE) : r \in StyledTexts}
  \cup {Block("heading_1", RT(r), FALSE) :
          r \in {Str("abc"), Obj(<<F("length", Num(1))>>), Num(5)}}
  \cup {Block(ty, Media(k, Str("https://e.x/" \o TextScript), c), FALSE) :
          ty \in {"image", "file", "pdf", "video"},
          k \in {"external", "file"},
          c \in {Arr(<<>>), Arr(<<PlainRun(TextNested)>>)}}
  \cup {Block("image",
               Media("external", Str("https://e.x/i"),
                     Arr(<<Styled("u", {"underline"}, "gray", Null)>>)),
               FALSE),
        Block("table_row",
              Obj(<<F("cells",
                      Arr(<<Arr(<<Styled("u", {"underline", "code"}, "red",
                                         Null)>>)>>))>>), FALSE),
        Block("bookmark",
              Obj(<<F("url", Str("https://e.x/b")),
                    F("caption",
                      Arr(<<Styled("u", {"underline"}, "red", Null)>>))>>),
              FALSE)}
  \cup {Block(ty, Obj(<<F("url", Str(TextScript))>>), FALSE) :
          ty \in {"bookmark", "embed", "link_preview"}}
  \cup {Block("to_do", Obj(<<F("rich_text", Arr(<<PlainRun("t")>>)),
                             F("checked", Bool(TRUE))>>), FALSE),
        Block("code", Obj(<<F("rich_text", Arr(<<PlainRun("t")>>)),
                            F("language", Str(TextScript))>>), FALSE),
        Block("callout", Obj(<<F("rich_text", Arr(<<PlainRun("t")>>)),
                               F("icon", Obj(<<F("emoji", Str("!"))>>))>>),
              FALSE),
        Block("child_page", Obj(<<F("title", Str(TextScript))>>), FALSE),
        Block("child_page", Obj(<<>>), TRUE),
        Block("child_database", Obj(<<F("title", Str("t"))>>), TRUE),
        Block("divider", Obj(<<>>), FALSE),
        Block("divider", Null, FALSE),
        Block("breadcrumb", Obj(<<>>), FALSE),
        Block("table_of_contents", Obj(<<>>), FALSE),
        Block("unsupported", Obj(<<>>), FALSE),
        Block("equation", Obj(<<F("expression", Str("a|b" \o TextScript))>>),
              FALSE),
        Block("table", Obj(<<F("table_width", Num(3))>>), TRUE),
        Block("table", Obj(<<F("table_width", Str(TextScript))>>), TRUE),
        Block("table_row", Obj(<<F("cells",
                Arr(<<Arr(<<PlainRun("a|b")>>), Arr(<<PlainRun(TextNested)>>),
                      Null>>))>>), FALSE),
        Block("table_row", Obj(<<F("cells",
                Arr(<<Arr(<<PlainRun("a"), Null>>)>>))>>), FALSE),
        Block("table_row", Obj(<<>>), FALSE),
        Block("link_to_page", Obj(<<F("page_id", Str(TextScript))>>), FALSE),
        Block("link_to_page", Obj(<<F("database_id", Str("d1"))>>), FALSE),
        Block("link_to_page", Obj(<<>>), FALSE),
        Block("synced_block", Obj(<<F("synced_from", Null)>>), TRUE),
        Block("synced_block",
              Obj(<<F("synced_from", Obj(<<F("block_id", Str(TextScript))>>))>>),
              TRUE),
        Block("paragraph", Null, FALSE),
        Block(TextScript, Obj(<<>>), FALSE),
        Block("audio", Obj(<<>>), FALSE),
        Block("toggle",
              Obj(<<F("rich_text", Arr(<<PlainRun("More")>>)),
                    F("children",
                      Arr(<<Block("heading_2",
                                  RT(Arr(<<PlainRun("Nested kale")>>)),
                                  FALSE)>>))>>),
              TRUE),
        Block("Paragraph", RT(Arr(<<PlainRun("Lacinato kale")>>)), FALSE),
        Block("heading_4", RT(Arr(<<PlainRun("Lacinato kale")>>)), TRUE),
        Obj(<<F("object", Str("block")), F("id", Str("b0"))>>),
        Obj(<<F("object", Str("block")), F("type", Num(5)),
              F("5", Obj(<<>>))>>)}

\* entities of a kind the renderer has no branch for, and non-objects
Others ==
  {Obj(<<>>),
   Obj(<<F("object", Str("unknown")), F("id", Str("unknown123"))>>),
   Obj(<<F("object", Str("user")), F("id", Str("u1")),
         F("name", Str(TextScript)), F("bot", Bool(FALSE)),
         F("n", Num(-3)), F("tags", Arr(<<Str("a\"b\\c\nd"), Null>>)),
         F("owner", Obj(<<F("type", Str("workspace"))>>)),
         F("none", Arr(<<>>)), F("empty", Obj(<<>>))>>),
   Obj(<<F("id", Str("c1")), F("rich_text", Arr(<<PlainRun(TextNested)>>))>>),
   Obj(<<F("object", Str("Page")), F("id", Str("x"))>>),
   Obj(<<F("object", Num(1))>>),
   Obj(<<F("object", Null)>>),
   Arr(<<Str("page")>>), Str("page"), Num(7), Bool(TRUE)}

Nothing == {Null, Undefined, Str(""), Num(0), Bool(FALSE)}

ListItems0 ==
  {Page("p1", Str("https://e.x/p1"),
        Mapping(<<Prop("title", "title", Arr(<<PlainRun("Tuscan kale")>>))>>)),
   Page("p2", Null, Mapping(<<Prop("number", "number", Num(1))>>)),
   Database(Arr(<<PlainRun("Tasks")>>), Null, Mapping(<<>>),
            Str("https://e.x/d")),
   Block("heading_2", RT(Arr(<<PlainRun("Lacinato kale")>>)), FALSE),
   Obj(<<F("object", Str("user")), F("name", Str(TextScript))>>),
   Obj(<<F("object", Str("list")),
         F("results",
           Arr(<<Block("heading_2", RT(Arr(<<PlainRun("Nested kale")>>)),
                       FALSE)>>))>>),
   Null}

List(results, hasMore, nextCursor) ==
  Obj(<<F("object", Str("list")), F("results", results),
        F("next_cursor", nextCursor), F("has_more", hasMore)>>)

Lists ==
  {List(Arr(rs), pg[1], pg[2]) :
     rs \in SeqsUpTo(ListItems0, MaxResults),
     pg \in {<<Bool(FALSE), Null>>, <<Bool(TRUE), Str("cur" \o TextScript)>>,
             <<Bool(TRUE), Null>>, <<Bool(FALSE), Str("cur")>>}}
  \cup {List(r, Bool(TRUE), Null) : r \in {Null, Obj(<<>>), Str("x")}}
  \cup {Obj(<<F("object", Str("list"))>>)}

Responses == Nothing \cup Others \cup Pages \cup Databases \cup Blocks \cup Lists

(***************************************************************************)
(* Specification of the renderer: one call of convertToMarkdown            *)
(***************************************************************************)
Init ==
  /\ input \in Responses
  /\ output = Ok("")
  /\ pc = "ready"
  /\ op = "none"
  /\ config = [enabledTools |-> Undefined, markdownConversion |-> Undefined,
               enabledToolsSet |-> {}, enableMarkdownConversion |-> FALSE]
  /\ calls = <<>>
  /\ listed = <<>>

ConvertToMarkdown ==
  /\ pc = "ready"
  /\ output' = convertToMarkdown(input)
  /\ pc' = "done"
  /\ op' = "convertToMarkdown"
  /\ UNCHANGED <<input, config, calls, listed>>

Next == ConvertToMarkdown

Spec == Init /\ [][Next]_vars

Rendered == pc = "done" /\ op = "convertToMarkdown"

(***************************************************************************)
(* The MCP server (src/src/server/index.ts): start-up configuration, the   *)
(* argument checks of utils/index.ts and the requests that the client      *)
(* wrapper (src/src/client/index.ts) hands to fetch.  An HTTP request is   *)
(* a record of its method, its path below the base URL, the entries of its *)
(* URLSearchParams and the object whose JSON text is its body.             *)
(***************************************************************************)
\* new Set(argv.enabledTools ? argv.enabledTools.split(",") : [])
EnabledToolsSet(enabledTools) ==
  IF ~Truthy(enabledTools) THEN {}
  ELSE LET s == enabledTools.v
           cuts == {0, Len(s) + 1} \cup {i \in 1..Len(s) : At(s, i) = ","}
       IN {SubSeq(s, a + 1, Least({b \in cuts : b > a}) - 1) :
             a \in cuts \ {Len(s) + 1}}

\* /^[0-9a-f]{8}-[0-9a-f]{4}-[0-9a-f]{4}-[0-9a-f]{4}-[0-9a-f]{12}$/i
UuidPattern(id) ==
  /\ Len(id) = 36
  /\ \A i \in 1..36 :
       IF i \in {9, 14, 19, 24} THEN At(id, i) = "-"
       ELSE Lower(At(id, i))
              \in DigitSet \cup {"a", "b", "c", "d", "e", "f"}

\* validateId(id): the completion holds the ID, or the message of the
\* Error thrown
validateId(id) ==
  IF ~Truthy(id) \/ id.t # "string"
  THEN Throw("Invalid ID: ID must be a non-empty string")
  ELSE IF ~UuidPattern(id.v)
  THEN Throw("Invalid ID format: ID must be in UUID format "
             \o "(8-4-4-4-12 with hyphens)")
  ELSE Ok(id)

\* a number with one decimal place, n + tenths/10 with n >= 1
Frac(n, tenths) == [t |-> "number", v |-> n, tenths |-> tenths]

\* validatePagination(start_cursor, page_size): the completion holds the
\* result object.  The control characters a string of the model can hold
\* are line feed, tab and carriage return; 100 and some tenths is > 100.
validatePagination(start_cursor, page_size) ==
  IF start_cursor.t \notin {"undefined", "string"}
  THEN Throw("Invalid start_cursor: must be a string")
  ELSE IF /\ page_size.t # "undefined"
          /\ \/ page_size.t # "number"
             \/ page_size.v <= 0
             \/ page_size.v > 100
             \/ (page_size.v = 100 /\ "tenths" \in DOMAIN page_size)
  THEN Throw("Invalid page_size: must be a number between 1 and 100")
  ELSE Ok([start_cursor |->
             IF start_cursor.t = "undefined" THEN Undefined
             ELSE Str(ReplaceChar(ReplaceChar(ReplaceChar(
                        start_cursor.v, 1, "\n", ""), 1, "\t", ""),
                                  1, "\r", "")),
           page_size |-> page_size])

\* a slip that lets every tool through
filterTools_All(tools, enabledToolsSet) == tools

\* filterTools(tools, enabledToolsSet)
filterTools(tools, enabledToolsSet) ==
  IF Cardinality(enabledToolsSet) = 0 THEN tools
  ELSE SelectSeq(tools, LAMBDA tool : tool.name \in enabledToolsSet)

\* a Tool: its name and the `required` list of its inputSchema
Tool(name, required) == [name |-> name, required |-> required]

\* the tools of the ListTools handler, in the order of its array
allTools ==
  <<Tool("notion_append_block_children", {"block_id", "children"}),
    Tool("notion_retrieve_block", {"block_id"}),
    Tool("notion_retrieve_block_children", {"block_id"}),
    Tool("notion_delete_block", {"block_id"}),
    Tool("notion_update_block", {"block_id", "block"}),
    Tool("notion_retrieve_page", {"page_id"}),
    Tool("notion_update_page_properties", {"page_id", "properties"}),
    Tool("notion_list_all_users", {}),
    Tool("notion_retrieve_user", {"user_id"}),
    Tool("notion_retrieve_bot_user", {"random_string"}),
    Tool("notion_create_database", {"parent", "properties"}),
    Tool("notion_query_database", {"database_id"}),
    Tool("notion_retrieve_database", {"database_id"}),
    Tool("notion_update_database", {"database_id"}),
    Tool("notion_create_database_item", {"database_id", "properties"}),
    Tool("notion_create_comment", {"rich_text"}),
    Tool("notion_retrieve_comments", {"block_id"}),
    Tool("notion_search", {})>>

\* fetch(`${baseUrl}${path}?${params}`, {method, headers, body})
Fetch(method, path, params, body) ==
  [method |-> method, path |-> path, params |-> params, body |-> body]

\* if (value) body[key] = value
With(body, key, value) ==
  IF Truthy(value) THEN Obj(Append(body.v, <<key, value>>)) ELSE body

\* if (start_cursor) params.append(...); if (page_size) params.append(...)
\* after the entries `params` already holds; p is the validated pagination
\* and page_size.toString() prints a fraction with its decimal point
Query(params, p) ==
  params
  \o (IF Truthy(p.start_cursor) THEN <<<<"start_cursor", p.start_cursor.v>>>>
      ELSE <<>>)
  \o (IF Truthy(p.page_size)
      THEN <<<<"page_size",
               IF "tenths" \in DOMAIN p.page_size
               THEN ToString(p.page_size.v) \o "."
                    \o ToString(p.page_size.tenths)
               ELSE ToString(p.page_size.v)>>>>
      ELSE <<>>)

\* if (!ok) throw new Error(message)
Require(ok, message) == IF ok THEN Ok("") ELSE Throw(message)

\* the checks of one case of the switch run in their order and the first
\* that throws ends the case; when none throws the client method issues
\* its fetch
Checked(checks, request) ==
  IF \E i \in DOMAIN checks : checks[i].exc
  THEN checks[Least({i \in DOMAIN checks : checks[i].exc})]
  ELSE Ok(request)

\* the cases of the tools that address one block, page, user or database
\* and the default case
EntityCase(name, args) ==
  CASE name = "notion_append_block_children" ->
         Checked(<<Require(/\ Truthy(Get(args, "block_id"))
                           /\ Truthy(Get(args, "children")),
                           "Missing required arguments: block_id and children"),
                   validateId(Get(args, "block_id")),
                   Require(IsArray(Get(args, "children")),
                           "Children must be an array")>>,
                 Fetch("PATCH",
                       "/blocks/" \o Get(args, "block_id").v \o "/children",
                       <<>>, Obj(<<<<"children", Get(args, "children")>>>>)))
    [] name \in {"notion_retrieve_block", "notion_delete_block"} ->
         Checked(<<Require(Truthy(Get(args, "block_id")),
                           "Missing required argument: block_id"),
                   validateId(Get(args, "block_id"))>>,
                 Fetch(IF name = "notion_delete_block" THEN "DELETE"
                       ELSE "GET",
                       "/blocks/" \o Get(args, "block_id").v, <<>>, Undefined))
    [] name = "notion_update_block" ->
         Checked(<<Require(/\ Truthy(Get(args, "block_id"))
                           /\ Truthy(Get(args, "block")),
                           "Missing required arguments: block_id and block"),
                   validateId(Get(args, "block_id"))>>,
                 Fetch("PATCH", "/blocks/" \o Get(args, "block_id").v, <<>>,
                       Get(args, "block")))
    [] name = "notion_retrieve_page" ->
         Checked(<<Require(Truthy(Get(args, "page_id")),
                           "Missing required argument: page_id"),
                   validateId(Get(args, "page_id"))>>,
                 Fetch("GET", "/pages/" \o Get(args, "page_id").v, <<>>,
                       Undefined))
    [] name = "notion_update_page_properties" ->
         Checked(<<Require(/\ Truthy(Get(args, "page_id"))
                           /\ Truthy(Get(args, "properties")),
                           "Missing required arguments: page_id and properties"),
                   validateId(Get(args, "page_id"))>>,
                 Fetch("PATCH", "/pages/" \o Get(args, "page_id").v, <<>>,
                       Obj(<<<<"properties", Get(args, "properties")>>>>)))
    [] name = "notion_retrieve_user" ->
         Checked(<<Require(Truthy(Get(args, "user_id")),
                           "Missing required argument: user_id"),
                   validateId(Get(args, "user_id"))>>,
                 Fetch("GET", "/users/" \o Get(args, "user_id").v, <<>>,
                       Undefined))
    [] name = "notion_retrieve_bot_user" ->
         Ok(Fetch("GET", "/users/me", <<>>, Undefined))
    [] name = "notion_create_database" ->
         Ok(Fetch("POST", "/databases", <<>>,
                  Obj(<<<<"parent", Get(args, "parent")>>,
                        <<"title", Get(args, "title")>>,
                        <<"properties", Get(args, "properties")>>>>)))
    [] name = "notion_retrieve_database" ->
         Checked(<<validateId(Get(args, "database_id"))>>,
                 Fetch("GET", "/databases/" \o Get(args, "database_id").v,
                       <<>>, Undefined))
    [] name = "notion_update_database" ->
         Checked(<<validateId(Get(args, "database_id"))>>,
                 Fetch("PATCH", "/databases/" \o Get(args, "database_id").v,
                       <<>>,
                       With(With(With(Obj(<<>>), "title", Get(args, "title")),
                                 "description", Get(args, "description")),
                            "properties", Get(args, "properties"))))
    [] name = "notion_create_database_item" ->
         Checked(<<validateId(Get(args, "database_id"))>>,
                 Fetch("POST", "/pages", <<>>,
                       Obj(<<<<"parent",
                               Obj(<<<<"database_id",
                                       Get(args, "database_id")>>>>)>>,
                             <<"properties", Get(args, "properties")>>>>)))
    [] OTHER -> Throw("Unknown tool: " \o name)

\* the tools whose case calls validatePagination
PagedTools ==
  {"notion_retrieve_block_children", "notion_list_all_users",
   "notion_query_database", "notion_retrieve_comments", "notion_search"}

\* the cases of the tools that take start_cursor and page_size; p is the
\* completion of validatePagination
PagedCase(name, args, p) ==
  CASE name = "notion_retrieve_block_children" ->
         Checked(<<Require(Truthy(Get(args, "block_id")),
                           "Missing required argument: block_id"),
                   validateId(Get(args, "block_id")), p>>,
                 Fetch("GET",
                       "/blocks/" \o Get(args, "block_id").v \o "/children",
                       Query(<<>>, p.val), Undefined))
    [] name = "notion_list_all_users" ->
         Checked(<<p>>, Fetch("GET", "/users", Query(<<>>, p.val), Undefined))
    [] name = "notion_query_database" ->
         Checked(<<Require(Truthy(Get(args, "database_id")),
                           "Missing required argument: database_id"),
                   validateId(Get(args, "database_id")), p>>,
                 Fetch("POST",
                       "/databases/" \o Get(args, "database_id").v \o "/query",
                       <<>>,
                       With(With(With(With(Obj(<<>>),
                                           "filter", Get(args, "filter")),
                                      "sorts", Get(args, "sorts")),
                                 "start_cursor", p.val.start_cursor),
                            "page_size", p.val.page_size)))
    [] name = "notion_retrieve_comments" ->
         Checked(<<Require(Truthy(Get(args, "block_id")),
                           "Missing required argument: block_id"),
                   validateId(Get(args, "block_id")), p>>,
                 Fetch("GET", "/comments",
                       Query(<<<<"block_id", Get(args, "block_id").v>>>>,
                             p.val),
                       Undefined))
    [] OTHER ->
         Checked(<<p>>,
                 Fetch("POST", "/search", <<>>,
                       With(With(With(With(With(Obj(<<>>),
                                                "query",
                                                IF Truthy(Get(args, "query"))
                                                THEN Str(sanitizeString(
                                                       Get(args, "query")))
                                                ELSE Undefined),
                                           "filter", Get(args, "filter")),
                                      "sort", Get(args, "sort")),
                                 "start_cursor", p.val.start_cursor),
                            "page_size", p.val.page_size)))

\* the case of notion_create_comment and the body createComment builds
CommentCase(args) ==
  Checked(<<Require(\/ Truthy(Get(args, "parent"))
                    \/ Truthy(Get(args, "discussion_id")),
                    "Either parent.page_id or discussion_id must be provided"),
            IF Truthy(Get(args, "discussion_id"))
            THEN validateId(Get(args, "discussion_id")) ELSE Ok(""),
            IF Truthy(Get(Get(args, "parent"), "page_id"))
            THEN validateId(Get(Get(args, "parent"), "page_id")) ELSE Ok("")>>,
          Fetch("POST", "/comments", <<>>,
                With(With(Obj(<<<<"rich_text", Get(args, "rich_text")>>>>),
                          "parent", Get(args, "parent")),
                     "discussion_id", Get(args, "discussion_id"))))

\* the handler up to its first await: the argument guard, then the switch
\* on request.params.name
ToolCase(name, args) ==
  IF ~Truthy(args) THEN Throw("No arguments provided")
  ELSE IF name \in PagedTools
  THEN PagedCase(name, args,
                 validatePagination(Get(args, "start_cursor"),
                                    Get(args, "page_size")))
  ELSE IF name = "notion_create_comment" THEN CommentCase(args)
  ELSE EntityCase(name, args)

\* a slip that renders whenever the conversion is enabled
FormatResponse_IgnoreFormat(args, response, enableMarkdownConversion) ==
  IF enableMarkdownConversion
  THEN sanitizeString(Str(convertToMarkdown(response).val))
  ELSE safeStringify(response)

\* the text of a successful call: the sanitized rendering or the JSON text
FormatResponse(args, response, enableMarkdownConversion) ==
  IF /\ enableMarkdownConversion
     /\ OrElse(OptGet(args, "format"), Str("markdown")) = Str("markdown")
  THEN sanitizeString(Str(convertToMarkdown(response).val))
  ELSE safeStringify(response)

\* a slip that returns the message of the Error as it is
ErrorText_Unsanitized(message) == "{\"error\":" \o JsonQuote(message) \o "}"

\* the text of the catch clause for an Error with this message:
\* JSON.stringify({error: sanitizeString(error.message)})
ErrorText(message) ==
  "{\"error\":" \o JsonQuote(sanitizeString(Str(message))) \o "}"

\* a call slot that holds no request
Idle ==
  [pc |-> "idle", name |-> "", arguments |-> Undefined, sent |-> <<>>,
   result |-> <<>>, content |-> <<>>]

\* the call after the synchronous part of the handler; r is the completion
\* of ToolCase
Suspended(request, r) ==
  IF r.exc
  THEN [pc |-> "done", name |-> request.name,
        arguments |-> request.arguments, sent |-> <<>>, result |-> <<>>,
        content |-> <<[type |-> "text", text |-> ErrorText(r.val)]>>]
  ELSE [pc |-> "awaiting", name |-> request.name,
        arguments |-> request.arguments, sent |-> <<r.val>>, result |-> <<>>,
        content |-> <<>>]

\* the call after its fetch has settled: response.json() gives the
\* response, a rejection goes to the catch clause
Resumed(call, result, enableMarkdownConversion) ==
  [call EXCEPT
     !.pc = "done",
     !.result = <<result>>,
     !.content =
       <<[type |-> "text",
          text |-> IF result.ok
                   THEN FormatResponse(call.arguments, result.body,
                                       enableMarkdownConversion)
                   ELSE ErrorText(result.message)]>>]

(***************************************************************************)
(* The requests of a client and the answers of the Notion API              *)
(***************************************************************************)
Uuid == "be633bf1-dfa0-436d-b259-571129a590e5"

\* arguments that satisfy the checks of every tool
FullArguments ==
  Obj(<<F("block_id", Str(Uuid)), F("page_id", Str(Uuid)),
        F("user_id", Str(Uuid)), F("database_id", Str(Uuid)),
        F("children", Arr(<<>>)), F("block", Obj(<<>>)),
        F("properties", Obj(<<>>)),
        F("parent", Obj(<<F("page_id", Str(Uuid))>>)),
        F("rich_text", Arr(<<PlainRun("kale")>>)),
        F("random_string", Str("x"))>>)

\* the CallTool requests: every tool and an unknown one without arguments,
\* with none of its arguments and with all of them; IDs, page sizes and
\* cursors of every kind; the parent and discussion_id combinations of a
\* comment; a required argument that no check of the handler names
Requests ==
  LET Call(name, arguments) == [name |-> name, arguments |-> arguments]
      Ids == {Str(Uuid), Str("BE633BF1-DFA0-436D-B259-571129A590E5"),
              Str("be633bf1dfa0436db259571129a590e5"), Str("not-a-uuid"),
              Str("be633bf1-dfa0-436d-b259-571129a590eg"), Str(""), Num(5)}
      PageSizes == {Num(0), Num(0 - 1), Num(1), Num(50), Num(100), Num(101),
                    Frac(1, 5), Frac(100, 5), Str("10"), Null, Bool(TRUE)}
      Cursors == {Str("abc"), Str("a\nb"), Num(7), Null}
  IN {Call(n, a) :
        n \in {allTools[i].name : i \in 1..Len(allTools)}
               \cup {"notion_export"},
        a \in {Undefined, Obj(<<>>), FullArguments,
               With(FullArguments, "format", Str("json")),
               With(FullArguments, "format", Str("markdown"))}}
     \cup {Call(n, Obj(<<F(k, id)>>)) :
             n \in {"notion_retrieve_block", "notion_retrieve_database"},
             k \in {"block_id", "database_id"}, id \in Ids}
     \cup {Call(n, Obj(Append(FullArguments.v, <<"page_size", size>>))) :
             n \in PagedTools, size \in PageSizes}
     \cup {Call(n, Obj(Append(FullArguments.v, <<"start_cursor", cursor>>))) :
             n \in PagedTools, cursor \in Cursors}
     \cup {Call("notion_create_comment",
                With(With(Obj(<<F("rich_text", Arr(<<>>))>>),
                          "parent", parent),
                     "discussion_id", id)) :
             parent \in {Undefined, Obj(<<>>),
                         Obj(<<F("page_id", Str(Uuid))>>),
                         Obj(<<F("page_id", Str("not-a-uuid"))>>)},
             id \in {Undefined, Str(Uuid), Str("not-a-uuid")}}
     \cup {Call("notion_create_database_item",
                Obj(<<F("database_id", Str(Uuid))>>)),
           Call("notion_create_database",
                Obj(<<F("parent", Obj(<<F("page_id", Str("not-a-uuid"))>>)),
                      F("properties", Obj(<<>>))>>)),
           Call("notion_append_block_children",
                Obj(<<F("block_id", Str(Uuid)), F("children", Str("x"))>>))}

\* what a fetch settles to: a JSON body (an error object included) or a
\* rejection
HttpResults ==
  {[ok |-> TRUE, body |-> b] :
     b \in {Page("p1", Str("https://e.x/p1"),
                 Mapping(<<Prop("title", "title",
                                Arr(<<PlainRun("Tuscan kale")>>))>>)),
            List(Arr(<<Block("heading_2",
                             RT(Arr(<<PlainRun("Lacinato kale")>>)),
                             FALSE)>>),
                 Bool(TRUE), Str("cur")),
            Obj(<<F("object", Str("user")), F("name", Str(TextScript))>>),
            Obj(<<F("object", Str("error")), F("status", Num(404)),
                  F("message", Str("Could not find page"))>>),
            List(Arr(<<Null>>), Bool(FALSE), Null)}}
  \cup {[ok |-> FALSE, message |-> m] :
          m \in {"request to https://api.notion.com/v1 failed",
                 "invalid json response body " \o TextScript}}

(***************************************************************************)
(* Specification of the server: ListTools requests and CallTool requests   *)
(***************************************************************************)
\* startServer with the --enabledTools argument and the value of
\* NOTION_MARKDOWN_CONVERSION of the process; enableMarkdownConversion is
\* process.env.NOTION_MARKDOWN_CONVERSION === "true"
InitServer ==
  /\ \E c \in [enabledTools :
                   {Undefined, Str(""), Str("non_existent_tool"),
                    Str("notion_query_database,notion_retrieve_block"),
                    Str("notion_search, notion_retrieve_page")},
                markdownConversion : {Undefined, Str("true"), Str("TRUE")}] :
       config = [enabledTools |-> c.enabledTools,
                 markdownConversion |-> c.markdownConversion,
                 enabledToolsSet |-> EnabledToolsSet(c.enabledTools),
                 enableMarkdownConversion |->
                   c.markdownConversion = Str("true")]
  /\ calls = <<Idle>>
  /\ listed = <<>>
  /\ input = Undefined
  /\ output = Ok("")
  /\ pc = "ready"
  /\ op = "none"

\* the ListTools handler
ListTools ==
  /\ listed' = <<filterTools(allTools, config.enabledToolsSet)>>
  /\ UNCHANGED <<config, calls, input, output, pc, op>>

\* the CallTool handler from the arrival of the request to its first await
\* or, when a check throws, to its return
CallTool(c, request) ==
  /\ calls[c].pc = "idle"
  /\ calls' = [calls EXCEPT
                 ![c] = Suspended(request,
                                  ToolCase(request.name, request.arguments))]
  /\ UNCHANGED <<config, listed, input, output, pc, op>>

\* a slip that keeps `response` outside the handler: the fetch that settles
\* resumes every call that is awaiting one
HttpResponse_SharedResponse(c, result) ==
  /\ calls[c].pc = "awaiting"
  /\ calls' = [d \in DOMAIN calls |->
                IF calls[d].pc = "awaiting"
                THEN Resumed(calls[d], result, config.enableMarkdownConversion)
                ELSE calls[d]]
  /\ UNCHANGED <<config, listed, input, output, pc, op>>

\* the fetch of a call settles and its handler runs to its return
HttpResponse(c, result) ==
  /\ calls[c].pc = "awaiting"
  /\ calls' = [calls EXCEPT
                 ![c] = Resumed(calls[c], result,
                                config.enableMarkdownConversion)]
  /\ UNCHANGED <<config, listed, input, output, pc, op>>

\* the answer has been delivered; the next request can arrive
Delivered(c) ==
  /\ calls[c].pc = "done"
  /\ calls' = [calls EXCEPT ![c] = Idle]
  /\ UNCHANGED <<config, listed, input, output, pc, op>>

NextServer ==
  \/ ListTools
  \/ \E c \in DOMAIN calls, request \in Requests : CallTool(c, request)
  \/ \E c \in DOMAIN calls, result \in HttpResults : HttpResponse(c, result)
  \/ \E c \in DOMAIN calls : Delivered(c)

SpecServer == InitServer /\ [][NextServer]_vars

(***************************************************************************)
(* Specification of concurrent calls: the handler of a CallTool request    *)
(* suspends at its await, and the handlers of other requests run until     *)
(* its fetch settles                                                       *)
(***************************************************************************)
MaxCalls == 2

\* the server has started and no request has arrived
InitConcurrent ==
  /\ \E env \in {Undefined, Str("true")} :
       config = [enabledTools |-> Undefined, markdownConversion |-> env,
                 enabledToolsSet |-> EnabledToolsSet(Undefined),
                 enableMarkdownConversion |-> env = Str("true")]
  /\ calls = [c \in 1..MaxCalls |-> Idle]
  /\ listed = <<>>
  /\ input = Undefined
  /\ output = Ok("")
  /\ pc = "ready"
  /\ op = "none"

\* the requests for notion_retrieve_page arrive in any number up to
\* MaxCalls at once; each fetch gives a page or is rejected
NextConcurrent ==
  \/ ListTools
  \/ \E c \in DOMAIN calls :
       \E request \in {r \in Requests :
                         /\ r.name = "notion_retrieve_page"
                         /\ r.arguments # Obj(<<>>)
                         /\ Get(r.arguments, "format") # Str("markdown")} :
         CallTool(c, request)
  \/ \E c \in DOMAIN calls :
       \E result \in {h \in HttpResults :
                        IF h.ok THEN Get(h.body, "object") = Str("page")
                        ELSE h.message = "invalid json response body " \o TextScript} :
         HttpResponse(c, result)
  \/ \E c \in DOMAIN calls : Delivered(c)

SpecConcurrent == InitConcurrent /\ [][NextConcurrent]_vars

(***************************************************************************)
(* Reading a rendered text                                                 *)
(***************************************************************************)
Occurrences(s, sub) ==
  {i \in 1..(Len(s) - Len(sub) + 1) : SubSeq(s, i, i + Len(sub) - 1) = sub}

Contains(s, sub) == Occurrences(s, sub) # {}

StartsWith(s, pre) == Len(pre) <= Len(s) /\ SubSeq(s, 1, Len(pre)) = pre

EndsWith(s, suf) ==
  Len(suf) <= Len(s) /\ SubSeq(s, Len(s) - Len(suf) + 1, Len(s)) = suf

\* the lines of s from position i on
RECURSIVE LinesFrom(_, _)
LinesFrom(s, i) ==
  LET p == FirstChar(s, i, "\n")
  IN IF p = 0 THEN <<SubSeq(s, i, Len(s))>>
     ELSE <<SubSeq(s, i, p - 1)>> \o LinesFrom(s, p + 1)

Lines(s) == LinesFrom(s, 1)

\* the lines between the separator line sep of a table and the next empty
\* line: the rows of the table
TableRows(s, sep) ==
  LET ls == Lines(s)
      k == Least({i \in 1..Len(ls) : ls[i] = sep})
      e == Least({i \in (k + 1)..(Len(ls) + 1) : i > Len(ls) \/ ls[i] = ""})
  IN SubSeq(ls, k + 1, e - 1)

PageSeparator == "|------------|----|"
DatabaseSeparator == "|------------|------|------|"

\* the number of | of a row that no backslash precedes
UnescapedPipes(row) ==
  Cardinality({i \in 1..Len(row) : At(row, i) = "|" /\ At(row, i - 1) # "\\"})

ContainsScriptBlock(s) == \E i \in 1..Len(s) : ScriptMatchEnd(s, i) # 0

ContainsHandler(s) ==
  \E i \in 1..Len(s) :
    HandlerMatchEnd(s, i, "\"") # 0 \/ HandlerMatchEnd(s, i, "'") # 0

\* data:<type>;base64,<payload> occurs somewhere in s
ContainsDataUri(s) ==
  \E i \in 1..Len(s) :
    /\ EqCI(s, i, "data:")
    /\ LET k == FirstChar(s, i + 5, ";")
       IN k # 0 /\ EqCI(s, k, ";base64,")

\* the characters of a from position i on occur in b from position j on,
\* in the same order
RECURSIVE IsSubsequenceFrom(_, _, _, _)
IsSubsequenceFrom(a, i, b, j) ==
  IF i > Len(a) THEN TRUE
  ELSE LET p == FirstChar(b, j, At(a, i))
       IN p # 0 /\ IsSubsequenceFrom(a, i + 1, b, p + 1)

\* some part of the value x is null
RECURSIVE HasNull(_)
HasNull(x) ==
  CASE x.t = "null" -> TRUE
    [] x.t = "array" -> \E i \in 1..Len(x.v) : HasNull(x.v[i])
    [] x.t = "object" -> \E i \in 1..Len(x.v) : HasNull(x.v[i][2])
    [] OTHER -> FALSE

\* some string of the value x contains a script-tag block
RECURSIVE HasScriptText(_)
HasScriptText(x) ==
  CASE x.t = "string" -> ContainsScriptBlock(x.v)
    [] x.t = "array" -> \E i \in 1..Len(x.v) : HasScriptText(x.v[i])
    [] x.t = "object" -> \E i \in 1..Len(x.v) : HasScriptText(x.v[i][2])
    [] OTHER -> FALSE

Kind(x) == Tag(Get(x, "object"))

RenderedKinds == {"page", "database", "block", "list"}

\* a page of the data model (its properties are a mapping) has been
\* rendered: no renderer threw, so the output is the page's rendering
RenderedPage ==
  /\ Rendered
  /\ Kind(input) = "page"
  /\ Get(input, "properties").t = "object"
  /\ ~Dispatch(input).exc

RecognizedPropertyTypes ==
  {"title", "rich_text", "number", "select", "multi_select", "date", "people",
   "files", "checkbox", "url", "email", "phone_number", "formula", "status",
   "relation", "rollup", "created_by", "created_time", "last_edited_by",
   "last_edited_time"}

\* the value cell of the row of a page table whose property is called name
ValueCell(row, name) ==
  SubSeq(row, Len("| " \o escapeTableCell(sanitizeString(Str(name))) \o " | ")
              + 1, Len(row) - 2)

(***************************************************************************)
(* Properties of the renderer                                              *)
(***************************************************************************)

\* C1: convertToMarkdown returns a string for every input and never throws,
\* whatever the input (null, undefined, {}, an object of unknown or missing
\* kind, a malformed page, database, block or list); for null and undefined
\* the string is empty.
C1_Total ==
  Rendered =>
    /\ ~output.exc
    /\ Len(output.val) >= 0
    /\ IsNullish(input) => output.val = ""

\* a malformed response, on which a renderer throws, has been converted
C1_Witness == Rendered /\ Truthy(input) /\ Dispatch(input).exc /\ ~output.exc

\* C2: when a page, database, block or list renderer throws, the caller gets
\* exactly the fixed message: no partial text, no exception text.
C2_FixedMessage ==
  Rendered /\ Truthy(input) /\ Dispatch(input).exc =>
    output = Ok(ErrorMessage)

\* a renderer threw after it had already built some text
C2_Witness ==
  /\ Rendered
  /\ Truthy(input)
  /\ Dispatch(input).exc
  /\ Dispatch(input).val # ""
  /\ output.val = ErrorMessage

\* C3: a response in which some field, property value, list item, rich-text
\* run or option entry is null never makes convertToMarkdown return the
\* fixed rendering-error message.
C3_NeverErrorMessage ==
  Rendered /\ HasNull(input) => output.val # ErrorMessage

\* C4: when a text field of the entity contains a script-tag block, the
\* returned text contains no script-tag block, whatever the renderer branch.
C4_NoScriptBlock ==
  Rendered /\ HasScriptText(input) => ~ContainsScriptBlock(output.val)

\* C5: sanitizeString removes every base64 data-URI wherever it stands in
\* the string, every script-tag block and every on*="..." attribute, and
\* keeps the other characters in their order.
C5_SanitizeRemovesAll ==
  pc = "done" /\ op = "sanitizeString" =>
    /\ ~ContainsDataUri(output.val)
    /\ ~ContainsScriptBlock(output.val)
    /\ ~ContainsHandler(output.val)
    /\ IsSubsequenceFrom(output.val, 1, input.v, 1)

\* C6: every row of the page property table has exactly 3 and every row of
\* the database schema table exactly 4 unescaped | delimiters, and no row
\* is broken by a line break: there is one line per property.
C6_TableCellsEscaped ==
  /\ Rendered
  /\ Kind(input) \in {"page", "database"}
  /\ Truthy(Get(input, "properties"))
  /\ output.val # ErrorMessage
  => LET isPage == Kind(input) = "page"
         rows == TableRows(output.val,
                           IF isPage THEN PageSeparator ELSE DatabaseSeparator)
     IN /\ Len(rows) = Len(Entries(Get(input, "properties")))
        /\ \A i \in 1..Len(rows) :
             UnescapedPipes(rows[i]) = IF isPage THEN 3 ELSE 4

\* C7: an entity whose object value is none of page, database, block, list
\* (or is missing) renders as the fence, the entity serialized as JSON and
\* the closing fence, and every field of the entity is in the output.
C7_RawDump ==
  Rendered /\ Truthy(input) /\ Kind(input) \notin RenderedKinds =>
    /\ output.val = Fence \o "json\n" \o JsonSerialize(input, "") \o "\n" \o Fence
    /\ StartsWith(output.val, Fence \o "json\n")
    /\ EndsWith(output.val, "\n" \o Fence)
    /\ input.t = "object" =>
         \A i \in 1..Len(input.v) :
           Contains(output.val,
                    "\n  " \o JsonQuote(input.v[i][1]) \o ": "
                    \o (IF IsString(input.v[i][2])
                        THEN JsonQuote(input.v[i][2].v) ELSE ""))

\* an entity of an unknown kind with several fields has been dumped
C7_Witness ==
  /\ Rendered
  /\ input.t = "object"
  /\ Kind(input) = "user"
  /\ Len(input.v) > 2
  /\ StartsWith(output.val, Fence \o "json\n{")

\* C8: a rendered page is, in this order, the heading "# <title>" (exactly
\* when the extracted title is not empty), the "## Properties" table with
\* its header, the note with the page ID, and the "View in Notion" link
\* (exactly when the page has a URL); each segment occurs once.
C8_PageSegments ==
  RenderedPage =>
    LET out == output.val
        title == sanitizeString(Str(extractPageTitle(input).val))
        url == Get(input, "url")
        header == "## Properties\n\n| Property | Value |\n" \o PageSeparator
        note == "\n\n> This page contains child blocks."
        idLine == "> Block ID: " \o BT \o sanitizeString(Get(input, "id"))
                  \o BT \o "\n"
        link == "\n[View in Notion](" \o sanitizeString(url) \o ")\n"
        headings == {i \in 1..Len(Lines(out)) : StartsWith(Lines(out)[i], "# ")}
        At1(sub) == Least(Occurrences(out, sub))
    IN /\ (title # "") <=> StartsWith(out, "# ")
       /\ title # "" => StartsWith(out, "# " \o title \o "\n\n" \o header)
       /\ title = "" => StartsWith(out, header)
       /\ Cardinality(headings) = IF title # "" THEN 1 ELSE 0
       /\ Cardinality(Occurrences(out, header)) = 1
       /\ Cardinality(Occurrences(out, note)) = 1
       /\ Cardinality(Occurrences(out, idLine)) = 1
       /\ Cardinality(Occurrences(out, "[View in Notion]("))
            = IF Truthy(url) THEN 1 ELSE 0
       /\ At1(header) < At1(note)
       /\ At1(note) < At1(idLine)
       /\ Truthy(url) => EndsWith(out, idLine \o link)
       /\ ~Truthy(url) => EndsWith(out, idLine)

\* a page with a title, a URL and two properties has been rendered
C8_Witness ==
  /\ RenderedPage
  /\ Len(Get(input, "properties").v) = 2
  /\ Truthy(Get(input, "url"))
  /\ StartsWith(output.val, "# Bug bash\n\n")

\* C9: the page property table has one row per entry of the property
\* mapping, the title-typed one included, in iteration order; the value
\* cell of a row is the rendering of its property, and a property of an
\* unrecognized type renders as "(Unsupported property type)".
C9_OneRowPerProperty ==
  RenderedPage =>
    LET rows == TableRows(output.val, PageSeparator)
        entries == Get(input, "properties").v
    IN /\ Len(rows) = Len(entries)
       /\ \A i \in 1..Len(entries) :
            /\ rows[i] = "| " \o escapeTableCell(sanitizeString(Str(entries[i][1])))
                         \o " | " \o escapeTableCell(propValue(entries[i][2]).val)
                         \o " |"
            /\ Tag(Get(entries[i][2], "type")) \notin RecognizedPropertyTypes
                 => ValueCell(rows[i], entries[i][1])
                      = "(Unsupported property type)"

\* a page whose mapping holds a title-typed property and one of an
\* unrecognized type, in that order, has been rendered
C9_Witness ==
  /\ RenderedPage
  /\ Len(Get(input, "properties").v) = 2
  /\ Tag(Get(Get(input, "properties").v[1][2], "type")) = "title"
  /\ Tag(Get(Get(input, "properties").v[2][2], "type")) = "button"
  /\ Len(TableRows(output.val, PageSeparator)) = 2

\* C10: a date property renders as its start date, followed by " → " and
\* the end date exactly when end is present; with a null or absent end the
\* value is the start string with no arrow, and with a null date payload
\* the value is empty.  (The value is then escaped as a table cell.)
C10_DateRendering ==
  RenderedPage =>
    LET rows == TableRows(output.val, PageSeparator)
        entries == Get(input, "properties").v
    IN \A i \in 1..Len(entries) :
         Tag(Get(entries[i][2], "type")) = "date" =>
           LET date == Get(entries[i][2], "date")
               cell == ValueCell(rows[i], entries[i][1])
           IN IF IsNullish(date) THEN cell = ""
              ELSE IF Truthy(Get(date, "end"))
              THEN cell = escapeTableCell(Get(date, "start").v \o " → "
                                          \o Get(date, "end").v)
              ELSE /\ cell = escapeTableCell(Get(date, "start").v)
                   /\ ~Contains(cell, "→")

\* a date with a start and a null end has been rendered without an arrow
C10_Witness ==
  /\ RenderedPage
  /\ Len(Get(input, "properties").v) = 1
  /\ Get(input, "properties").v[1][2]
       = Prop("date", "date", DatePayload(Str("2023-02-23"), Null))
  /\ Contains(output.val, "| Name | 2023-02-23 |\n")

(***************************************************************************)
(* Properties of rich text, blocks, databases and lists                    *)
(***************************************************************************)
\* the annotation k of a run is set
Flag(item, k) == Get(Get(item, "annotations"), k) = Bool(TRUE)

\* m when the condition holds, nothing otherwise
If(cond, m) == IF cond THEN m ELSE ""

\* what stands in front of and behind the text of a run: strikethrough
\* outermost, then italic, bold, and code innermost; a link around all
Opening(item) ==
  If(Truthy(Get(item, "href")), "[") \o If(Flag(item, "strikethrough"), "~~")
  \o If(Flag(item, "italic"), "*") \o If(Flag(item, "bold"), "**")
  \o If(Flag(item, "code"), BT)

Closing(item) ==
  If(Flag(item, "code"), BT) \o If(Flag(item, "bold"), "**")
  \o If(Flag(item, "italic"), "*") \o If(Flag(item, "strikethrough"), "~~")
  \o If(Truthy(Get(item, "href")),
        "](" \o sanitizeString(Get(item, "href")) \o ")")

\* the text the claim expects for the rich text rt
ExpectedRichText(rt) ==
  IF ~IsArray(rt) THEN ""
  ELSE Join([i \in 1..Len(rt.v) |->
               Opening(rt.v[i])
               \o sanitizeString(OrElse(Get(rt.v[i], "plain_text"), Str("")))
               \o Closing(rt.v[i])], "")

\* the rich text of a rendered paragraph or heading_1 block
BlockRichText == Get(Get(input, Tag(Get(input, "type"))), "rich_text")

AllMarks == {"code", "bold", "italic", "strikethrough"}

\* C11: the markers of a run are applied to its sanitized text in the order
\* code (innermost), bold, italic, strikethrough (outermost) and a link
\* wraps the whole; bold+italic on "x" is ***x*** and all four are
\* ~~***`x`***~~; runs are concatenated in order without a separator, and
\* empty or non-array rich text gives the empty string.
C11_RichTextMarkers ==
  /\ Rendered
  /\ Kind(input) = "block"
  /\ Tag(Get(input, "type")) \in {"paragraph", "heading_1"}
  /\ output.val # ErrorMessage
  => /\ output.val
          = If(Tag(Get(input, "type")) = "heading_1", "# ")
            \o ExpectedRichText(BlockRichText)
     /\ BlockRichText = Arr(<<Styled("x", {"bold", "italic"}, "default", Null)>>)
          => output.val = "***x***"
     /\ BlockRichText = Arr(<<Styled("x", AllMarks, "default", Null)>>)
          => output.val = "~~***" \o BT \o "x" \o BT \o "***~~"

\* a run carrying all four annotations and a link has been rendered
C11_Witness ==
  /\ Rendered
  /\ BlockRichText
       = Arr(<<Styled("x", AllMarks, "default", Str("https://e.x/a"))>>)
  /\ output.val = "[~~***" \o BT \o "x" \o BT \o "***~~](https://e.x/a)"

\* the type tag and the payload of the block that was read
BlockType == Tag(Get(input, "type"))
BlockPayload == Get(input, BlockType)

\* C12: a heading_1, heading_2 or heading_3 block renders as one, two or
\* three # characters, one space and the rendered rich text, and nothing
\* before or after; heading_2 with the plain run "Lacinato kale" is exactly
\* "## Lacinato kale".
C12_Headings ==
  /\ Rendered
  /\ Kind(input) = "block"
  /\ BlockType \in {"heading_1", "heading_2", "heading_3"}
  /\ Truthy(BlockPayload)
  /\ output.val # ErrorMessage
  => /\ output.val
          = (CASE BlockType = "heading_1" -> "# "
               [] BlockType = "heading_2" -> "## "
               [] OTHER -> "### ")
            \o ExpectedRichText(Get(BlockPayload, "rich_text"))
     /\ (/\ BlockType = "heading_2"
         /\ Get(BlockPayload, "rich_text") = Arr(<<PlainRun("Lacinato kale")>>))
          => output.val = "## Lacinato kale"

\* the heading_2 block "Lacinato kale" has been rendered
C12_Witness ==
  /\ Rendered
  /\ input = Block("heading_2", RT(Arr(<<PlainRun("Lacinato kale")>>)), FALSE)
  /\ output.val = "## Lacinato kale"

\* a database with a schema mapping has been rendered
RenderedDatabase ==
  /\ Rendered
  /\ Kind(input) = "database"
  /\ Get(input, "properties").t = "object"
  /\ output.val # ErrorMessage

\* the names of the options of the schema property prop of type ty, in
\* their declared order
OptionNames(prop, ty) ==
  LET options == OrElse(OptGet(Get(prop, ty), "options"), Arr(<<>>))
  IN [i \in 1..Len(options.v) |-> sanitizeString(Get(options.v[i], "name"))]

\* the Details text the claim names for a schema property, "-" for the
\* types the claim does not speak of
NamedDetails(prop, ty) ==
  CASE ty \in {"select", "multi_select"} ->
         "Options: " \o Join(OptionNames(prop, ty), ", ")
    [] ty = "relation" ->
         "Related DB: " \o Get(Get(prop, "relation"), "database_id").v
    [] ty = "formula" ->
         "Formula: " \o Get(Get(prop, "formula"), "expression").v
    [] ty = "rollup" ->
         "Rollup: " \o Get(Get(prop, "rollup"), "function").v
    [] OTHER -> "-"

\* C13: the schema table of a rendered database has one row per schema
\* property, holding its name, its type and its details in this order; the
\* details of a select or multi_select property are "Options: " and the
\* option names joined by ", " in declared order (A and B: "Options: A, B"),
\* those of a relation its database ID, of a formula its expression and of
\* a rollup its function name.
C13_SchemaDetails ==
  RenderedDatabase =>
    LET rows == TableRows(output.val, DatabaseSeparator)
        entries == Get(input, "properties").v
    IN /\ Len(rows) = Len(entries)
       /\ \A i \in 1..Len(entries) :
            LET prop == entries[i][2]
                name == sanitizeString(OrElse(Get(prop, "name"),
                                              Str(entries[i][1])))
                ty == sanitizeString(OrElse(Get(prop, "type"), Str("unknown")))
                front == "| " \o escapeTableCell(name) \o " | " \o ty \o " | "
            IN /\ StartsWith(rows[i], front)
               /\ EndsWith(rows[i], " |")
               /\ NamedDetails(prop, ty) # "-"
                    => rows[i] = front
                                 \o escapeTableCell(NamedDetails(prop, ty))
                                 \o " |"
               /\ prop = Prop("multi_select", "multi_select",
                              Options(<<"A", "B">>))
                    => EndsWith(rows[i], " | multi_select | Options: A, B |")

\* a database whose multi_select property has the options A and B, and a
\* second property, have been rendered
C13_Witness ==
  /\ RenderedDatabase
  /\ Len(Get(input, "properties").v) = 2
  /\ Get(input, "properties").v[1][2]
       = Prop("multi_select", "multi_select", Options(<<"A", "B">>))
  /\ Contains(output.val, "| Name | multi_select | Options: A, B |\n")

\* a list whose results are an array has been rendered to the end
RenderedList ==
  /\ Rendered
  /\ Kind(input) = "list"
  /\ IsArray(Get(input, "results"))
  /\ ~Dispatch(input).exc

Results == Get(input, "results").v

\* the `object` kind of the first result, "unknown" when there is none
FirstKind ==
  IF Len(Results) = 0 THEN "unknown"
  ELSE Tag(OrElse(Get(Results[1], "object"), Str("unknown")))

\* the title an abbreviated item shows
ShortTitle(item) ==
  IF Kind(item) = "page"
  THEN (IF extractPageTitle(item).val = "" THEN "Untitled"
        ELSE extractPageTitle(item).val)
  ELSE RichTextOrDefault(Get(item, "title"), "Untitled Database").val

\* linked title, the ID as it stands in the item, horizontal rule
ShortForm(item) ==
  "## [" \o sanitizeString(Str(ShortTitle(item))) \o "]("
  \o sanitizeString(OrElse(Get(item, "url"), Str("#"))) \o ")\n\n"
  \o "ID: " \o BT \o Get(item, "id").v \o BT \o "\n\n"
  \o "---\n\n"

\* the full rendering of a page or database item, followed by a rule
FullForm(item) ==
  (IF Kind(item) = "page" THEN convertPageToMarkdown(item).val
   ELSE convertDatabaseToMarkdown(item).val)
  \o "\n\n---\n\n"

\* what the list shows for its i-th result: the short form of a page or
\* database of the first result's kind, the full form of any other page
\* or database
RECURSIVE ExpectedItems(_)
ExpectedItems(i) ==
  IF i > Len(Results) THEN ""
  ELSE (IF Kind(Results[i]) \in {"page", "database"}
        THEN (IF Kind(Results[i]) = FirstKind THEN ShortForm(Results[i])
              ELSE FullForm(Results[i]))
        ELSE ListItem(Results[i], FirstKind).val)
       \o ExpectedItems(i + 1)

\* C14: the heading of a rendered list depends only on the `object` kind of
\* its first result (pages, databases, blocks, the generic heading for any
\* other kind and for the empty list); a page or database item is shown in
\* the short form (linked title, ID, rule) exactly when its kind is the
\* kind of the first result, and by its full converter otherwise.
C14_ListItems ==
  RenderedList =>
    LET heading == CASE FirstKind = "page" -> "# Search Results (Pages)\n\n"
                     [] FirstKind = "database" ->
                          "# Search Results (Databases)\n\n"
                     [] FirstKind = "block" -> "# Block Contents\n\n"
                     [] OTHER -> "# Results List\n\n"
    IN /\ StartsWith(output.val, heading \o ExpectedItems(1))
       /\ Len(output.val)
            = Len(heading) + Len(ExpectedItems(1)) + Len(Pagination(input))

\* a list of a titled page followed by a database has been rendered: the
\* page is abbreviated, the database is rendered in full
C14_Witness ==
  /\ RenderedList
  /\ Len(Results) = 2
  /\ Kind(Results[1]) = "page"
  /\ Kind(Results[2]) = "database"
  /\ StartsWith(output.val,
                "# Search Results (Pages)\n\n"
                \o "## [Tuscan kale](https://e.x/p1)\n\nID: " \o BT \o "p1"
                \o BT \o "\n\n---\n\n# Tasks (Database)\n\n")

MoreNote ==
  "\n> More results available. Use " \o BT \o "start_cursor" \o BT
  \o " parameter with the next request.\n"

CursorLine ==
  "> Next cursor: " \o BT \o sanitizeString(Get(input, "next_cursor")) \o BT
  \o "\n"

\* the rendering of the same results without any pagination
ItemsOnly ==
  convertListToMarkdown(List(Get(input, "results"), Bool(FALSE), Null)).val

\* C15: a rendered list ends with the note "More results available. Use
\* `start_cursor` ..." exactly when has_more is true; the note follows all
\* rendered items and carries the next cursor exactly when next_cursor is
\* present; under has_more false the output holds no such note.
C15_PaginationNote ==
  RenderedList =>
    IF Get(input, "has_more") = Bool(TRUE)
    THEN /\ output.val
              = ItemsOnly \o MoreNote
                \o (IF Get(input, "next_cursor").t = "string" THEN CursorLine
                    ELSE "")
         /\ Cardinality(Occurrences(output.val, "More results available")) = 1
         /\ Contains(output.val, "Next cursor")
              <=> Get(input, "next_cursor").t = "string"
    ELSE /\ output.val = ItemsOnly
         /\ ~Contains(output.val, "More results available")
         /\ ~Contains(output.val, "cursor")

\* a list of two pages with has_more and a next cursor has been rendered,
\* and its last lines are the note and the cursor
C15_Witness ==
  /\ RenderedList
  /\ Len(Results) = 2
  /\ Get(input, "has_more") = Bool(TRUE)
  /\ Get(input, "next_cursor").t = "string"
  /\ EndsWith(output.val,
              "---\n\n" \o MoreNote \o "> Next cursor: " \o BT \o "cur" \o BT
              \o "\n")

(***************************************************************************)
(* Properties of the server                                                *)
(***************************************************************************)
\* the calls whose handler has returned
Returned == {c \in DOMAIN calls : calls[c].pc = "done"}

\* the returned calls that succeeded: no check threw and the fetch gave a
\* response
Succeeded == {c \in Returned : calls[c].result # <<>> /\ calls[c].result[1].ok}

\* the text of the answer of a returned call
Text(c) == calls[c].content[1].text

\* the API response of a call that succeeded
Response(c) == calls[c].result[1].body

\* C16: the text of a successful tool call is the rendering of the API
\* response (as the server returns it, sanitized) exactly when
\* NOTION_MARKDOWN_CONVERSION is "true" and the format argument is
\* "markdown" or omitted; in every other case it is the JSON text of the
\* raw response.
C16_FormatSelection ==
  \A c \in Succeeded :
    LET format == Get(calls[c].arguments, "format")
        rendering == sanitizeString(Str(convertToMarkdown(Response(c)).val))
        json == safeStringify(Response(c))
    IN /\ rendering # json
       /\ IF /\ config.markdownConversion = Str("true")
             /\ format \in {Undefined, Str("markdown")}
          THEN Text(c) = rendering
          ELSE Text(c) = json

\* with the conversion enabled and no format argument, a retrieved page
\* has been answered by its rendering
C16_Witness ==
  \E c \in Succeeded :
    /\ config.markdownConversion = Str("true")
    /\ calls[c].name = "notion_retrieve_page"
    /\ Get(calls[c].arguments, "format") = Undefined
    /\ Kind(Response(c)) = "page"
    /\ StartsWith(Text(c), "# Tuscan kale\n\n")

\* the tools of this name (one for a defined tool, none otherwise)
Known(name) == {i \in 1..Len(allTools) : allTools[i].name = name}

\* an argument that the inputSchema of the tool requires is absent
RequiredMissing(call) ==
  \E i \in Known(call.name) :
    \E k \in allTools[i].required : Get(call.arguments, k) = Undefined

\* the ID arguments a call carries: the required ID of its tool, the
\* discussion_id and the parent page of a comment, the parent page of a new
\* database
IdArguments(call) ==
  {v \in {Get(call.arguments, k) :
            k \in {"block_id", "page_id", "user_id", "database_id"}
                  \cap UNION {allTools[i].required : i \in Known(call.name)}}
         \cup (IF call.name \in {"notion_create_comment",
                                 "notion_create_database"}
               THEN {Get(call.arguments, "discussion_id"),
                     Get(Get(call.arguments, "parent"), "page_id")}
               ELSE {}) :
     v # Undefined}

FailsUuid(v) == v.t # "string" \/ ~UuidPattern(v.v)

\* page_size is given and is not a number from 1 to 100
PageSizeOutOfBounds(call) ==
  /\ call.name \in PagedTools
  /\ Get(call.arguments, "page_size") # Undefined
  /\ \/ Get(call.arguments, "page_size").t # "number"
     \/ Get(call.arguments, "page_size").v < 1
     \/ Get(call.arguments, "page_size").v > 100

\* one of the reasons for which a call must not reach the Notion API
MustNotSend(call) ==
  \/ call.arguments = Undefined
  \/ Known(call.name) = {}
  \/ RequiredMissing(call)
  \/ \E v \in IdArguments(call) : FailsUuid(v)
  \/ PageSizeOutOfBounds(call)

\* C17: a CallTool request causes at most one HTTP request: exactly one
\* when the tool is known and every argument check passes, none when the
\* arguments are missing, the tool is unknown, a required argument is
\* missing, an ID fails the UUID check or page_size is out of bounds; the
\* request is issued by the step that ran the checks, and the resumption of
\* the handler (Markdown conversion included) issues none.
C17_OneRequestPerCall ==
  [][\A c \in DOMAIN calls :
       /\ Len(calls'[c].sent) <= 1
       /\ Len(calls'[c].sent) > Len(calls[c].sent)
            => /\ calls[c].pc = "idle"
               /\ ~ToolCase(calls'[c].name, calls'[c].arguments).exc
       /\ calls[c].pc = "awaiting" => calls'[c].sent = calls[c].sent
       /\ calls[c].pc = "idle" /\ calls'[c].pc # "idle"
            => /\ MustNotSend(calls'[c]) => calls'[c].sent = <<>>
               /\ (/\ Known(calls'[c].name) # {}
                   /\ ~ToolCase(calls'[c].name, calls'[c].arguments).exc)
                    => Len(calls'[c].sent) = 1]_vars

\* the calls of notion_create_comment that have run their checks
Comments ==
  {c \in DOMAIN calls :
     calls[c].pc # "idle" /\ calls[c].name = "notion_create_comment"
     /\ calls[c].arguments # Undefined}

\* the call was answered by an error object and nothing was sent for it
Rejected(c) ==
  /\ calls[c].pc = "done"
  /\ calls[c].sent = <<>>
  /\ StartsWith(Text(c), "{\"error\":")

\* C18: notion_create_comment takes a page parent or a discussion_id, not
\* both: a call with both is rejected with an error and sends nothing, a
\* call with neither is rejected, and a call with one valid ID of the two is
\* sent.
C18_ParentXorDiscussion ==
  \A c \in Comments :
    LET parent == Get(calls[c].arguments, "parent")
        discussion == Get(calls[c].arguments, "discussion_id")
    IN /\ parent # Undefined /\ discussion # Undefined => Rejected(c)
       /\ parent = Undefined /\ discussion = Undefined => Rejected(c)
       /\ (/\ parent = Obj(<<F("page_id", Str(Uuid))>>)
           /\ discussion = Undefined) => Len(calls[c].sent) = 1
       /\ parent = Undefined /\ discussion = Str(Uuid)
            => Len(calls[c].sent) = 1

\* the values of page_size a call may carry: whole numbers from 1 to 100
Acceptable(size) ==
  /\ size.t = "number"
  /\ "tenths" \notin DOMAIN size
  /\ 1 <= size.v /\ size.v <= 100

\* the page_size that the request of a call carries to the API, Undefined
\* when it carries none
Forwarded(request) ==
  IF request.method = "GET"
  THEN (IF \E i \in DOMAIN request.params : request.params[i][1] = "page_size"
        THEN Str(request.params[CHOOSE i \in DOMAIN request.params :
                                  request.params[i][1] = "page_size"][2])
        ELSE Undefined)
  ELSE Get(request.body, "page_size")

\* C19: in a call of a tool with pagination arguments whose other
\* arguments are valid, a given page_size is accepted only when it is a
\* whole number from 1 to 100 and then reaches the API unchanged (as the
\* number in a body, as its decimal text in a query); any other given value
\* ends the call with an error and without a request; an omitted page_size
\* is omitted from the request.
C19_PageSize ==
  \A c \in DOMAIN calls :
    (/\ calls[c].pc # "idle"
     /\ calls[c].name \in PagedTools
     /\ calls[c].arguments # Undefined
     /\ \A k \in {"block_id", "database_id"} :
          Get(calls[c].arguments, k) = Str(Uuid)
     /\ Get(calls[c].arguments, "start_cursor") = Undefined)
    => LET size == Get(calls[c].arguments, "page_size")
       IN /\ size = Undefined
               => /\ Len(calls[c].sent) = 1
                  /\ Forwarded(calls[c].sent[1]) = Undefined
          /\ size # Undefined /\ Acceptable(size)
               => /\ Len(calls[c].sent) = 1
                  /\ Forwarded(calls[c].sent[1])
                       \in {size, Str(ToString(size.v))}
          /\ size # Undefined /\ ~Acceptable(size)
               => /\ calls[c].sent = <<>>
                  /\ calls[c].pc = "done" => Rejected(c)

\* the names of a sequence of tools, in its order
Names(ts) == [i \in 1..Len(ts) |-> ts[i].name]

\* C20: the ListTools response is filterTools applied to the 18 defined
\* tools: all of them, unchanged, when the enabled set is empty (no
\* --enabledTools, or an empty one); otherwise exactly the tools whose name
\* is in the set, each once and in their original order, which is the empty
\* list when no name matches.
C20_FilterTools ==
  listed # <<>> =>
    LET result == listed[1]
        enabled == config.enabledToolsSet
    IN /\ Len(allTools) = 18
       /\ ~Truthy(config.enabledTools) => enabled = {}
       /\ enabled = {} => result = allTools
       /\ enabled # {}
            => /\ \A i \in 1..Len(allTools) :
                    allTools[i].name \in enabled
                      <=> \E j \in 1..Len(result) : result[j] = allTools[i]
               /\ \A j \in 1..Len(result) :
                    \E i \in 1..Len(allTools) : result[j] = allTools[i]
               /\ \A j, k \in 1..Len(result) :
                    j < k => \E i, l \in 1..Len(allTools) :
                               /\ i < l
                               /\ result[j] = allTools[i]
                               /\ result[k] = allTools[l]
               /\ Cardinality({result[j].name : j \in 1..Len(result)})
                    = Len(result)
       /\ (\A i \in 1..Len(allTools) : allTools[i].name \notin enabled)
            /\ enabled # {}
            => result = <<>>

\* with --enabledTools notion_query_database,notion_retrieve_block the
\* response lists notion_retrieve_block before notion_query_database, as
\* the tool array does
C20_Witness ==
  /\ listed # <<>>
  /\ config.enabledToolsSet
       = {"notion_query_database", "notion_retrieve_block"}
  /\ Names(listed[1]) = <<"notion_retrieve_block", "notion_query_database">>

\* C21: when --enabledTools names a non-empty set of tools, a CallTool
\* request for a tool outside the set is not executed: it issues no HTTP
\* request and is answered by an error, whatever ListTools and CallTool
\* requests came before it.
C21_OnlyEnabledToolsRun ==
  \A c \in DOMAIN calls :
    (/\ calls[c].pc # "idle"
     /\ config.enabledToolsSet # {}
     /\ calls[c].name \notin config.enabledToolsSet)
    => /\ calls[c].sent = <<>>
       /\ calls[c].pc = "done"
       /\ StartsWith(Text(c), "{\"error\":")

\* the answer that a request with these arguments and this HTTP result gets
\* when it is the only one
Alone(call) ==
  IF call.result = <<>>
  THEN Suspended([name |-> call.name, arguments |-> call.arguments],
                 ToolCase(call.name, call.arguments)).content
  ELSE Resumed(call, call.result[1], config.enableMarkdownConversion).content

RECURSIVE BackslashesBefore(_, _)
BackslashesBefore(s, p) ==
  IF p > 1 /\ SubSeq(s, p - 1, p - 1) = "\\"
  THEN 1 + BackslashesBefore(s, p - 1)
  ELSE 0

\* a cell text that keeps its row whole: no line feed, and every | escaped
KeepsRow(s) ==
  /\ Occurrences(s, "\n") = {}
  /\ \A p \in Occurrences(s, "|") : BackslashesBefore(s, p) % 2 = 1

\* C23: for every string s, backslashes and escaped pipes included,
\* escapeTableCell(s) has no line break and every | in it is preceded by an
\* odd number of backslashes, and so has escapeTableCell(escapeTableCell(s)).
C23_EscapeKeepsRow ==
  (pc = "done" /\ op = "escapeTableCell")
    => /\ KeepsRow(output.val)
       /\ KeepsRow(escapeTableCell(output.val))

\* a single block has been rendered and no renderer threw
RenderedBlock ==
  /\ Rendered
  /\ Kind(input) = "block"
  /\ ~Dispatch(input).exc

\* the type tag of the block, or the payload under the field it names, is
\* absent
NoPayload ==
  \/ IsNullish(Get(input, "type"))
  \/ IsNullish(Get(input, JsToString(Get(input, "type"))))

\* C24 as stated: a block other than a divider renders as the empty string
\* exactly when its type tag or its payload is absent, so every block with
\* a payload renders as a non-empty string; a divider renders as "---"
\* with and without a payload.
C24_EmptyExactlyWhenAbsent ==
  RenderedBlock
    => IF BlockType = "divider" THEN output.val = "---"
       ELSE (output.val = "") <=> NoPayload

\* C24, amended: a block other than a divider whose type tag or payload is
\* absent renders as the empty string; a divider renders as "---" with and
\* without a payload; a block with a payload renders as a non-empty string
\* unless it is a paragraph, which renders as its rich text alone and so
\* as the empty string when it has none or the runs are empty.
C24_EmptyWhenAbsent ==
  RenderedBlock
    => /\ BlockType = "divider" => output.val = "---"
       /\ (BlockType # "divider" /\ NoPayload) => output.val = ""
       /\ (~NoPayload /\ BlockType # "paragraph") => output.val # ""
       /\ (~NoPayload /\ BlockType = "paragraph")
            => output.val
                 = (IF Truthy(Get(BlockPayload, "rich_text"))
                    THEN ExpectedRichText(Get(BlockPayload, "rich_text"))
                    ELSE "")

\* the divider without a payload has been rendered
C24_Witness ==
  /\ Rendered
  /\ input = Block("divider", Null, FALSE)
  /\ output.val = "---"

\* the type tags that the switch of renderBlock has a case for
RecognizedBlockTypes ==
  {"paragraph", "heading_1", "heading_2", "heading_3", "bulleted_list_item",
   "numbered_list_item", "to_do", "toggle", "child_page", "image", "divider",
   "quote", "code", "callout", "bookmark", "table", "child_database",
   "breadcrumb", "embed", "equation", "file", "link_preview", "link_to_page",
   "pdf", "synced_block", "table_of_contents", "table_row", "template",
   "video", "unsupported"}

\* C25: a block of the data model (its payload is under the field its type
\* names) whose type tag X is not a recognized block type renders as
\* "*Unsupported block type: X*" with X sanitized: no error is raised, the
\* error message is not returned, and nothing of a recognized type's
\* template or of the payload is rendered.
C25_UnsupportedBlockType ==
  (/\ Rendered
   /\ Kind(input) = "block"
   /\ ~NoPayload
   /\ BlockType \notin RecognizedBlockTypes)
    => /\ ~Dispatch(input).exc
       /\ output.val # ErrorMessage
       /\ output.val = "*Unsupported block type: "
                       \o sanitizeString(Get(input, "type")) \o "*"
       /\ BlockType = "heading_4"
            => output.val = "*Unsupported block type: heading_4*"

\* a block whose type differs from a recognized one by its capital letter
\* has been rendered as unsupported, its rich text left out
C25_Witness ==
  /\ Rendered
  /\ input = Block("Paragraph", RT(Arr(<<PlainRun("Lacinato kale")>>)), FALSE)
  /\ output.val = "*Unsupported block type: Paragraph*"

\* the object obj with value under key, in place when obj has the key
Put(obj, key, value) ==
  IF \E i \in 1..Len(obj.v) : obj.v[i][1] = key
  THEN Obj([i \in 1..Len(obj.v) |->
              IF obj.v[i][1] = key THEN F(key, value) ELSE obj.v[i]])
  ELSE Obj(Append(obj.v, F(key, value)))

\* the rendered block with the other value of has_children
Flipped ==
  Put(input, "has_children", Bool(~Truthy(Get(input, "has_children"))))

\* what is fixed of the renderings that stand for nested content
Placeholders ==
  /\ BlockType = "toggle" /\ ~NoPayload
       => output.val
            = "<details>\n<summary>"
              \o ExpectedRichText(Get(BlockPayload, "rich_text"))
              \o "</summary>\n\n*Additional API request is needed to "
              \o "display child blocks*\n\n</details>"
  /\ BlockType = "table" /\ ~NoPayload
       => /\ StartsWith(output.val, "*Table data (")
          /\ EndsWith(output.val, " columns) - Additional API request is "
                                  \o "needed to display details*")
  /\ BlockType = "synced_block" /\ ~NoPayload
       => /\ StartsWith(output.val, "*Synced Block (")
          /\ EndsWith(output.val, ") - Additional API request is needed to "
                                  \o "display content*")
  /\ BlockType = "template" /\ ~NoPayload
       => output.val
            = "*Template Block: "
              \o ExpectedRichText(Get(BlockPayload, "rich_text")) \o "*"

\* a list among the results of a list is shown as the JSON text of the
\* value, and the block inside it is not rendered
NestedListsDumped ==
  RenderedList
    => \A i \in 1..Len(Results) :
         Kind(Results[i]) = "list"
           => /\ Contains(output.val,
                          Fence \o "json\n" \o safeStringify(Results[i])
                          \o "\n" \o Fence \o "\n\n")
              /\ ~Contains(output.val, "## Nested kale")

\* C26 as stated: the text of a block depends only on the block's type and
\* payload (it is the same for every has_children and every id), toggle,
\* table, synced_block and template blocks render a placeholder, and a
\* list nested in a list is not rendered as a list.
C26_TypeAndPayloadOnly ==
  /\ NestedListsDumped
  /\ RenderedBlock
       => /\ Placeholders
          /\ output = convertToMarkdown(Flipped)
          /\ output = convertToMarkdown(Put(input, "id", Str("b1")))

\* C26, amended: the text of a block depends only on the block's own
\* fields, its type and payload and for a child_database its id, and is
\* the same for every has_children; toggle, table, synced_block and
\* template blocks render a placeholder, children carried in the payload
\* are not rendered, and a list nested in a list is not rendered as a list.
C26_NoDescent ==
  /\ NestedListsDumped
  /\ RenderedBlock
       => /\ Placeholders
          /\ output = convertToMarkdown(Flipped)
          /\ ~Contains(output.val, "Nested kale")
          /\ BlockType # "child_database"
               => output = convertToMarkdown(Put(input, "id", Str("b1")))
          /\ BlockType = "child_database"
               => output.val = EmojiChart \o " **Embedded Database**: " \o BT
                               \o sanitizeString(Get(input, "id")) \o BT

\* a toggle that has children, and carries them, has been rendered
C26_Witness ==
  /\ Rendered
  /\ Kind(input) = "block"
  /\ BlockType = "toggle"
  /\ Truthy(Get(input, "has_children"))
  /\ Truthy(Get(BlockPayload, "children"))
  /\ output.val = "<details>\n<summary>More</summary>\n\n*Additional API "
                  \o "request is needed to display child blocks*\n\n</details>"

\* the value x with, in every `annotations` object, underline false and the
\* default color
RECURSIVE Neutral(_)
Neutral(x) ==
  CASE x.t = "array" -> Arr([i \in 1..Len(x.v) |-> Neutral(x.v[i])])
    [] x.t = "object" ->
         Obj([i \in 1..Len(x.v) |->
                LET key == x.v[i][1]
                    value == x.v[i][2]
                IN IF key = "annotations" /\ value.t = "object"
                   THEN F(key, Put(Put(value, "underline", Bool(FALSE)),
                                   "color", Str("default")))
                   ELSE F(key, Neutral(value))])
    [] OTHER -> x

\* C27: two responses that differ only in the values of `underline` and
\* `color` of their rich-text annotations render to the same text, in
\* blocks, captions, table rows, page properties, titles and lists alike.
C27_UnderlineAndColorIgnored ==
  Rendered => output = convertToMarkdown(Neutral(input))

\* a heading whose run is underlined, italic and red has been rendered as
\* an italic run
C27_Witness ==
  /\ Rendered
  /\ input = Block("heading_1",
                   RT(Arr(<<Styled("u", {"underline", "italic"}, "red",
                                   Null)>>)), FALSE)
  /\ Neutral(input) # input
  /\ output.val = "# *u*"

\* the first of the string, number and boolean results of the formula
\* payload f that is not empty, as text
FormulaResult(f) ==
  LET s == OptGet(f, "string")
      n == OptGet(f, "number")
      b == OptGet(f, "boolean")
  IN IF IsString(s) /\ s.v # "" THEN escapeTableCell(sanitizeString(s))
     ELSE IF n.t = "number" THEN ToString(n.v)
     ELSE IF b.t = "boolean" THEN (IF b.v THEN "true" ELSE "false")
     ELSE ""

\* C28: the value cell of a number property is the decimal text of its
\* number, "0" for 0, and empty only when the number is null or absent;
\* that of a formula property is the first non-empty of its string, number
\* and boolean results, so "0" for the number 0 and "false" for the boolean
\* false; that of a rollup that is not an array is "0" for the number 0.
C28_FalsyValuesRendered ==
  RenderedPage =>
    LET rows == TableRows(output.val, PageSeparator)
        entries == Get(input, "properties").v
    IN \A i \in 1..Len(entries) :
         LET prop == entries[i][2]
             ty == Tag(Get(prop, "type"))
             cell == ValueCell(rows[i], entries[i][1])
         IN /\ ty = "number"
                 => /\ Get(prop, "number").t = "number"
                         => cell = ToString(Get(prop, "number").v)
                    /\ Get(prop, "number") = Num(0) => cell = "0"
                    /\ (cell = "") <=> IsNullish(Get(prop, "number"))
            /\ ty = "formula"
                 => /\ cell = FormulaResult(Get(prop, "formula"))
                    /\ OptGet(Get(prop, "formula"), "number") = Num(0)
                         => cell = "0"
                    /\ OptGet(Get(prop, "formula"), "boolean") = Bool(FALSE)
                         => cell = "false"
            /\ (/\ ty = "rollup"
                /\ Tag(OptGet(Get(prop, "rollup"), "type")) # "array"
                /\ OptGet(Get(prop, "rollup"), "number").t = "number")
                 => cell = ToString(OptGet(Get(prop, "rollup"), "number").v)

\* a page whose formula property has the number result 0 has been rendered
C28_Witness ==
  /\ RenderedPage
  /\ \E i \in 1..Len(Get(input, "properties").v) :
       /\ Tag(Get(Get(input, "properties").v[i][2], "type")) = "formula"
       /\ OptGet(Get(Get(input, "properties").v[i][2], "formula"), "number")
            = Num(0)
       /\ ~Truthy(OptGet(Get(Get(input, "properties").v[i][2], "formula"),
                         "string"))
  /\ Contains(output.val, " | 0 |\n")

\* the title-typed properties of the page that hold an array, by position
\* in the mapping
TitledAt(page) ==
  LET entries == Get(page, "properties").v
  IN {i \in 1..Len(entries) :
        /\ Tag(Get(entries[i][2], "type")) = "title"
        /\ IsArray(Get(entries[i][2], "title"))}

\* the text of the first of them, empty when there is none
TitleOf(page) ==
  IF TitledAt(page) = {} THEN ""
  ELSE sanitizeString(Str(ExpectedRichText(
         Get(Get(page, "properties").v[Least(TitledAt(page))][2], "title"))))

\* C29: a page without a title-typed property, or whose title is no array
\* or has only empty text, is rendered without a level-1 heading and
\* starts with the property table, and it is not an error; as an item of a
\* list of pages its linked title is "Untitled".  Of several title-typed
\* properties the first in iteration order that holds an array gives the
\* title.
C29_NoTitle ==
  /\ RenderedPage
       => /\ output.val # ErrorMessage
          /\ TitleOf(input) = ""
               => /\ StartsWith(output.val,
                                "## Properties\n\n| Property | Value |\n")
                  /\ \A i \in 1..Len(Lines(output.val)) :
                       ~StartsWith(Lines(output.val)[i], "# ")
          /\ TitleOf(input) # ""
               => StartsWith(output.val,
                             "# " \o TitleOf(input) \o "\n\n## Properties\n")
  /\ (RenderedList /\ FirstKind = "page")
       => \A i \in 1..Len(Results) :
            (/\ Kind(Results[i]) = "page"
             /\ Get(Results[i], "properties").t = "object"
             /\ TitleOf(Results[i]) = "")
              => Contains(output.val,
                          "## [Untitled]("
                          \o sanitizeString(OrElse(Get(Results[i], "url"),
                                                   Str("#")))
                          \o ")\n\nID: " \o BT
                          \o sanitizeString(Get(Results[i], "id")) \o BT
                          \o "\n\n---\n\n")

\* a page whose first title-typed property holds no array and whose second
\* holds the title has been rendered under that title
C29_Witness ==
  /\ RenderedPage
  /\ Get(input, "properties")
       = Mapping(<<Prop("title", "title", Null),
                   Prop("title", "title", Arr(<<PlainRun("Tuscan kale")>>))>>)
  /\ StartsWith(output.val, "# Tuscan kale\n\n## Properties\n")

\* the returned calls in which a step of the handler threw: the guard on
\* the arguments, the switch or a check (nothing was sent), or the fetch
\* or the reading of its body (the promise was rejected)
Threw == {c \in Returned : calls[c].sent = <<>> \/ ~calls[c].result[1].ok}

\* the message of the Error that was thrown in such a call
Thrown(c) ==
  IF calls[c].sent = <<>>
  THEN ToolCase(calls[c].name, calls[c].arguments).val
  ELSE calls[c].result[1].message

\* the returned calls whose response a renderer could not render
RenderingFailed ==
  {c \in Succeeded :
     /\ config.enableMarkdownConversion
     /\ Get(calls[c].arguments, "format") \in {Undefined, Str("markdown")}
     /\ Truthy(Response(c))
     /\ Dispatch(Response(c)).exc}

\* every returned call has exactly one content item, a text, and the text
\* of a call in which a step threw is {"error": message} with the message
\* sanitized
AnswersAndErrors ==
  /\ \A c \in Returned :
       /\ Len(calls[c].content) = 1
       /\ calls[c].content[1].type = "text"
  /\ \A c \in Threw :
       /\ Text(c) = "{\"error\":\"" \o JsonEscape(sanitizeString(Str(Thrown(c))))
                    \o "\"}"
       /\ calls[c].arguments = Undefined
            => Text(c) = "{\"error\":\"No arguments provided\"}"
       /\ Thrown(c) = "invalid json response body " \o TextScript
            => Text(c) = "{\"error\":\"invalid json response body \"}"

\* C30 as stated: the handler returns exactly one text content item for
\* every request, and when a step fails, a failed rendering included, the
\* text is the JSON object {"error": message} with the sanitized message.
C30_ErrorObjectOnEveryFailure ==
  /\ AnswersAndErrors
  /\ \A c \in RenderingFailed : StartsWith(Text(c), "{\"error\":")

\* C30, amended: the handler returns exactly one text content item for
\* every request; when a step of the handler throws (missing arguments,
\* unknown tool, failed validation, a rejected fetch or an unreadable
\* body) the text is the JSON object {"error": message} with the sanitized
\* message; when the rendering fails the text is the fixed message of
\* convertToMarkdown, returned as the result of the call.
C30_AlwaysAnswers ==
  /\ AnswersAndErrors
  /\ \A c \in RenderingFailed : Text(c) = ErrorMessage

\* a call whose body could not be read has been answered with the error
\* object, the script tag of the message removed
C30_Witness ==
  \E c \in Threw :
    /\ calls[c].sent # <<>>
    /\ Thrown(c) = "invalid json response body " \o TextScript
    /\ Text(c) = "{\"error\":\"invalid json response body \"}"

====
